---- MODULE Spec2Model ----
(***************************************************************************)
(* Typed validation and error-propagation core of the shop front end:      *)
(* branded (nominal) types, io-ts schemas, the decode-to-Result bridge and *)
(* the product service functions.                                          *)
(***************************************************************************)
EXTENDS Integers, Sequences, FiniteSets, TLC

VARIABLES nom, br, svc, dec, res, boot, ui, cart, ord

vars == <<nom, br, svc, dec, res, boot, ui, cart, ord>>

(***************************************************************************)
(* JavaScript values.  Every value is a record with the fields t (the      *)
(* result of typeof), k (a kind within the type) and v (a magnitude).      *)
(*   number : k = "int"  -> the integer v                                  *)
(*            k = "frac" -> the non-integer v + 0.5                        *)
(*            k = "nan", "inf", "ninf" -> NaN, Infinity, -Infinity         *)
(*   string : k names a class of strings, v is the length                  *)
(***************************************************************************)
Num(k, v) == [t |-> "number", k |-> k, v |-> v]

IntV(v) == Num("int", v)

HalfV(v) == Num("frac", v)

NaN == Num("nan", 0)

Infinity == Num("inf", 0)

NegInfinity == Num("ninf", 0)

Str(k, len) == [t |-> "string", k |-> k, v |-> len]

Bool(b) == [t |-> "boolean", k |-> IF b THEN "true" ELSE "false", v |-> 0]

Undefined == [t |-> "undefined", k |-> "", v |-> 0]

Null == [t |-> "object", k |-> "null", v |-> 0]

\* the marker of a property an object does not have
Absent == [t |-> "absent", k |-> "", v |-> 0]

\* the marker of an exception leaving a function
Thrown(msg) == [t |-> "throw", k |-> msg, v |-> 0]

IsThrown(x) == x.t = "throw"

Obj(fields) == [t |-> "object", k |-> "record", v |-> 0, f |-> fields]

Arr(elems) == [t |-> "object", k |-> "array", v |-> 0, a |-> elems]

IsObj(u) == u.t = "object" /\ u.k = "record"

IsArr(u) == u.t = "object" /\ u.k = "array"

\* u[k]: reading a property that is not there gives undefined
Get(u, k) == IF k \in DOMAIN u.f /\ u.f[k] # Absent THEN u.f[k] ELSE Undefined

hasOwnProperty(u, k) == k \in DOMAIN u.f /\ u.f[k] # Absent

(***************************************************************************)
(* Number predicates of the language                                       *)
(***************************************************************************)
NumberIsInteger(x) == x.t = "number" /\ x.k = "int"

NumberIsFinite(x) == x.t = "number" /\ x.k \in {"int", "frac"}

\* x < 0
Lt0(x) ==
  CASE x.k = "int" -> x.v < 0
    [] x.k = "frac" -> x.v < 0
    [] x.k = "ninf" -> TRUE
    [] OTHER -> FALSE

\* x <= 0
Le0(x) ==
  CASE x.k = "int" -> x.v <= 0
    [] x.k = "frac" -> x.v < 0
    [] x.k = "ninf" -> TRUE
    [] OTHER -> FALSE

\* x > 0
Gt0(x) ==
  CASE x.k = "int" -> x.v > 0
    [] x.k = "frac" -> x.v >= 0
    [] x.k = "inf" -> TRUE
    [] OTHER -> FALSE

\* x >= 0
Ge0(x) ==
  CASE x.k = "int" -> x.v >= 0
    [] x.k = "frac" -> x.v >= 0
    [] x.k = "inf" -> TRUE
    [] OTHER -> FALSE

(***************************************************************************)
(* Branded types: constructors                                             *)
(***************************************************************************)
ProductId(id) ==
  IF ~NumberIsInteger(id) \/ Le0(id) THEN Thrown("Invalid ProductId") ELSE id

CategoryId(id) ==
  IF ~NumberIsInteger(id) \/ Le0(id) THEN Thrown("Invalid CategoryId") ELSE id

UserId(id) ==
  IF ~NumberIsInteger(id) \/ Le0(id) THEN Thrown("Invalid UserId") ELSE id

OrderId(id) ==
  IF ~NumberIsInteger(id) \/ Le0(id) THEN Thrown("Invalid OrderId") ELSE id

OrderItemId(id) ==
  IF ~NumberIsInteger(id) \/ Le0(id) THEN Thrown("Invalid OrderItemId") ELSE id

CartItemId(id) ==
  IF ~NumberIsInteger(id) \/ Le0(id) THEN Thrown("Invalid CartItemId") ELSE id

Price(price) ==
  IF Lt0(price) THEN Thrown("Price cannot be negative")
  ELSE IF ~NumberIsFinite(price) THEN Thrown("Price must be a finite number")
  ELSE price

Quantity(quantity) ==
  IF ~NumberIsInteger(quantity) THEN Thrown("Quantity must be an integer")
  ELSE IF Lt0(quantity) THEN Thrown("Quantity cannot be negative")
  ELSE quantity

(***************************************************************************)
(* Branded types: type guards                                              *)
(***************************************************************************)
isProductId(value) == value.t = "number" /\ NumberIsInteger(value) /\ Gt0(value)

isCategoryId(value) == value.t = "number" /\ NumberIsInteger(value) /\ Gt0(value)

isUserId(value) == value.t = "number" /\ NumberIsInteger(value) /\ Gt0(value)

isOrderId(value) == value.t = "number" /\ NumberIsInteger(value) /\ Gt0(value)

isPrice(value) == value.t = "number" /\ NumberIsFinite(value) /\ Ge0(value)

isQuantity(value) == value.t = "number" /\ NumberIsInteger(value) /\ Ge0(value)

NominalTypes ==
  {"ProductId", "CategoryId", "UserId", "OrderId", "OrderItemId", "CartItemId",
   "Price", "Quantity"}

\* the guards the branded-types module exports
ExportedGuards ==
  {"ProductId", "CategoryId", "UserId", "OrderId", "Price", "Quantity"}

Construct(n, p) ==
  CASE n = "ProductId" -> ProductId(p)
    [] n = "CategoryId" -> CategoryId(p)
    [] n = "UserId" -> UserId(p)
    [] n = "OrderId" -> OrderId(p)
    [] n = "OrderItemId" -> OrderItemId(p)
    [] n = "CartItemId" -> CartItemId(p)
    [] n = "Price" -> Price(p)
    [] n = "Quantity" -> Quantity(p)

\* Calling the guard of nominal type n: "true" or "false", or "TypeError"
\* when the module exports no such guard (the name is undefined at the call).
CallGuard(n, x) ==
  IF n \notin ExportedGuards THEN "TypeError"
  ELSE LET r == CASE n = "ProductId" -> isProductId(x)
                  [] n = "CategoryId" -> isCategoryId(x)
                  [] n = "UserId" -> isUserId(x)
                  [] n = "OrderId" -> isOrderId(x)
                  [] n = "Price" -> isPrice(x)
                  [] n = "Quantity" -> isQuantity(x)
       IN IF r THEN "true" ELSE "false"

(***************************************************************************)
(* io-ts: validation results.  A validation error carries the offending    *)
(* value and its context: the keys from the root codec down to the failing *)
(* codec (path) and the name of the failing codec (type).                  *)
(***************************************************************************)
Right(a) == [tag |-> "Right", right |-> a]

Left(es) == [tag |-> "Left", left |-> es]

\* an exception that leaves decode
Raise(x) == [tag |-> "Throw", thrown |-> x]

failure(input, path, type) ==
  Left(<<[value |-> input, path |-> path, type |-> type]>>)

\* t.success(v), where evaluating the argument v may have thrown
success(v) == IF IsThrown(v) THEN Raise(v) ELSE Right(v)

RECURSIVE pushAll(_)
\* the concatenation of a sequence of error lists
pushAll(ess) == IF ess = <<>> THEN <<>> ELSE Head(ess) \o pushAll(Tail(ess))

(***************************************************************************)
(* Custom codecs of the schema modules: the validate function of each      *)
(***************************************************************************)
ProductIdCodec(input, path) ==
  IF input.t # "number" THEN failure(input, path, "ProductId")
  ELSE IF ~NumberIsInteger(input) \/ Le0(input) THEN failure(input, path, "ProductId")
  ELSE success(ProductId(input))

CategoryIdCodec(input, path) ==
  IF input.t # "number" THEN failure(input, path, "CategoryId")
  ELSE IF ~NumberIsInteger(input) \/ Le0(input) THEN failure(input, path, "CategoryId")
  ELSE success(CategoryId(input))

\* mutant: a price of zero is rejected
PriceCodecPositive(input, path) ==
  IF input.t # "number" THEN failure(input, path, "Price")
  ELSE IF ~NumberIsFinite(input) \/ Le0(input) THEN failure(input, path, "Price")
  ELSE success(Price(input))

PriceCodec(input, path) ==
  IF input.t # "number" THEN failure(input, path, "Price")
  ELSE IF ~NumberIsFinite(input) \/ Lt0(input) THEN failure(input, path, "Price")
  ELSE success(Price(input))

QuantityCodec(input, path) ==
  IF input.t # "number" THEN failure(input, path, "Quantity")
  ELSE IF ~NumberIsInteger(input) \/ Lt0(input) THEN failure(input, path, "Quantity")
  ELSE success(Quantity(input))

stringWithMinMax(min, max, name, input, path) ==
  IF input.t # "string" THEN failure(input, path, name)
  ELSE IF input.v < min \/ input.v > max THEN failure(input, path, name)
  ELSE success(input)

\* new URL(input) does not throw
ParsesAsURL(input) == input.k = "url"

\* !isNaN(new Date(input).getTime())
ParsesAsDate(input) == input.k = "date"

urlString(input, path) ==
  IF input.t # "string" THEN failure(input, path, "URL")
  ELSE IF ParsesAsURL(input) THEN success(input)
  ELSE failure(input, path, "URL")

datetimeString(input, path) ==
  IF input.t # "string" THEN failure(input, path, "DateTime")
  ELSE IF ~ParsesAsDate(input) THEN failure(input, path, "DateTime")
  ELSE success(input)

\* the custom codecs of the order and user schema modules
OrderIdCodec(input, path) ==
  IF input.t # "number" THEN failure(input, path, "OrderId")
  ELSE IF ~NumberIsInteger(input) \/ Le0(input) THEN failure(input, path, "OrderId")
  ELSE success(OrderId(input))

\* its guard argument, isOrderItemId, is not exported by the branded-types
\* module; validate does not use the guard
OrderItemIdCodec(input, path) ==
  IF input.t # "number" THEN failure(input, path, "OrderItemId")
  ELSE IF ~NumberIsInteger(input) \/ Le0(input) THEN failure(input, path, "OrderItemId")
  ELSE success(OrderItemId(input))

UserIdCodec(input, path) ==
  IF input.t # "number" THEN failure(input, path, "UserId")
  ELSE IF ~NumberIsInteger(input) \/ Le0(input) THEN failure(input, path, "UserId")
  ELSE success(UserId(input))

\* /^[^\s@]+@[^\s@]+\.[^\s@]+$/.test(input)
MatchesEmailRegex(input) == input.k = "email"

emailString(input, path) ==
  IF input.t # "string" THEN failure(input, path, "Email")
  ELSE IF ~MatchesEmailRegex(input) THEN failure(input, path, "Email")
  ELSE success(input)

\* a string literal: the class of strings that has this one member
StringLiteral(text) == Str(text, Len(text))

\* mutant: a literal codec accepts every string
literalAnyString(value, input, path) ==
  IF input.t = "string" THEN success(value) ELSE failure(input, path, value.k)

\* t.literal(value): input === value
literal(value, input, path) ==
  IF input = value THEN success(value) ELSE failure(input, path, value.k)

(***************************************************************************)
(* The type guards (is) the custom codecs are built with                   *)
(***************************************************************************)
stringWithMinMaxIs(min, max, input) ==
  input.t = "string" /\ input.v >= min /\ input.v <= max

urlStringIs(input) == IF input.t # "string" THEN FALSE ELSE ParsesAsURL(input)

datetimeStringIs(input) == IF input.t # "string" THEN FALSE ELSE ParsesAsDate(input)

(***************************************************************************)
(* Codec descriptors.  A leaf names a custom or built-in codec; the        *)
(* combinators are t.union, t.type, t.partial, t.intersection, t.array.    *)
(***************************************************************************)
Leaf(name) == [kind |-> "leaf", name |-> name]

Union(name, members) == [kind |-> "union", name |-> name, members |-> members]

Type(name, props) == [kind |-> "type", name |-> name, props |-> props]

Partial(name, props) == [kind |-> "partial", name |-> name, props |-> props]

Intersection(name, members) ==
  [kind |-> "intersection", name |-> name, members |-> members]

Array(item) == [kind |-> "array", name |-> "Array", item |-> item]

Prop(key, codec) == [key |-> key, codec |-> codec]

\* t.literal of a string
Literal(text) == [kind |-> "literal", name |-> text, value |-> StringLiteral(text)]

ShippingAddressMin == 10

ShippingAddressMax == 500

UserNameMin == 2

UserNameMax == 100

NameMin == 1

NameMax == 200

LeafValidate(name, u, path) ==
  CASE name = "ProductId" -> ProductIdCodec(u, path)
    [] name = "CategoryId" -> CategoryIdCodec(u, path)
    [] name = "Price" -> PriceCodec(u, path)
    [] name = "Quantity" -> QuantityCodec(u, path)
    [] name = "ProductName" -> stringWithMinMax(NameMin, NameMax, "ProductName", u, path)
    [] name = "URL" -> urlString(u, path)
    [] name = "DateTime" -> datetimeString(u, path)
    [] name = "OrderId" -> OrderIdCodec(u, path)
    [] name = "OrderItemId" -> OrderItemIdCodec(u, path)
    [] name = "UserId" -> UserIdCodec(u, path)
    [] name = "Email" -> emailString(u, path)
    [] name = "ShippingAddress" ->
         stringWithMinMax(ShippingAddressMin, ShippingAddressMax, "ShippingAddress", u, path)
    [] name = "UserName" -> stringWithMinMax(UserNameMin, UserNameMax, "UserName", u, path)
    [] name = "string" -> IF u.t = "string" THEN success(u) ELSE failure(u, path, name)
    [] name = "number" -> IF u.t = "number" THEN success(u) ELSE failure(u, path, name)
    [] name = "boolean" -> IF u.t = "boolean" THEN success(u) ELSE failure(u, path, name)
    [] name = "undefined" -> IF u = Undefined THEN success(u) ELSE failure(u, path, name)

LeafIs(name, u) ==
  CASE name = "ProductId" -> isProductId(u)
    [] name = "CategoryId" -> isCategoryId(u)
    [] name = "Price" -> isPrice(u)
    [] name = "Quantity" -> isQuantity(u)
    [] name = "ProductName" -> stringWithMinMaxIs(NameMin, NameMax, u)
    [] name = "URL" -> urlStringIs(u)
    [] name = "DateTime" -> datetimeStringIs(u)
    [] name = "string" -> u.t = "string"
    [] name = "number" -> u.t = "number"
    [] name = "boolean" -> u.t = "boolean"
    [] name = "undefined" -> u = Undefined

\* UnknownRecord: a plain object, neither null nor an array
UnknownRecord(u) == IsObj(u)

\* the indices of seq whose element satisfies nothing but being first
FirstIndex(S) == CHOOSE i \in S : \A j \in S : i <= j

RECURSIVE codecValidate(_, _, _)
\* codec.validate(u, context): Right(value), Left(errors) or an exception
codecValidate(codec, u, path) ==
  CASE codec.kind = "leaf" -> LeafValidate(codec.name, u, path)
    [] codec.kind = "literal" -> literal(codec.value, u, path)
    [] codec.kind = "union" ->
         LET n == Len(codec.members)
             r == [i \in 1..n |->
                     codecValidate(codec.members[i], u, path \o <<ToString(i - 1)>>)]
             stop == {i \in 1..n : r[i].tag # "Left"}
         IN IF stop # {} THEN r[FirstIndex(stop)]
            ELSE Left(pushAll([i \in 1..n |-> r[i].left]))
    [] codec.kind = "type" ->
         IF ~UnknownRecord(u) THEN failure(u, path, codec.name)
         ELSE LET n == Len(codec.props)
                  keys == {codec.props[i].key : i \in 1..n}
                  r == [i \in 1..n |->
                          codecValidate(codec.props[i].codec, Get(u, codec.props[i].key),
                                        path \o <<codec.props[i].key>>)]
                  thrown == {i \in 1..n : r[i].tag = "Throw"}
                  errors == pushAll([i \in 1..n |->
                                       IF r[i].tag = "Left" THEN r[i].left ELSE <<>>])
                  idx(k) == CHOOSE i \in 1..n : codec.props[i].key = k
                  a == [k \in DOMAIN u.f \cup keys |->
                          IF k \in keys
                          THEN LET ak == Get(u, k)
                                   vak == r[idx(k)].right
                               IN IF vak # ak \/ (vak = Undefined /\ ~hasOwnProperty(u, k))
                                  THEN vak
                                  ELSE u.f[k]
                          ELSE u.f[k]]
              IN IF thrown # {} THEN r[FirstIndex(thrown)]
                 ELSE IF Len(errors) > 0 THEN Left(errors)
                 ELSE Right(Obj(a))
    [] codec.kind = "partial" ->
         IF ~UnknownRecord(u) THEN failure(u, path, codec.name)
         ELSE LET n == Len(codec.props)
                  keys == {codec.props[i].key : i \in 1..n}
                  r == [i \in 1..n |->
                          codecValidate(codec.props[i].codec, Get(u, codec.props[i].key),
                                        path \o <<codec.props[i].key>>)]
                  thrown == {i \in 1..n : r[i].tag = "Throw"}
                  errors == pushAll([i \in 1..n |->
                                       IF r[i].tag = "Left"
                                            /\ Get(u, codec.props[i].key) # Undefined
                                       THEN r[i].left ELSE <<>>])
                  idx(k) == CHOOSE i \in 1..n : codec.props[i].key = k
                  a == [k \in DOMAIN u.f |->
                          IF k \in keys /\ r[idx(k)].tag = "Right"
                               /\ r[idx(k)].right # Get(u, k)
                          THEN r[idx(k)].right
                          ELSE u.f[k]]
              IN IF thrown # {} THEN r[FirstIndex(thrown)]
                 ELSE IF Len(errors) > 0 THEN Left(errors)
                 ELSE Right(Obj(a))
    [] codec.kind = "intersection" ->
         LET n == Len(codec.members)
             r == [i \in 1..n |->
                     codecValidate(codec.members[i], u, path \o <<ToString(i - 1)>>)]
             thrown == {i \in 1..n : r[i].tag = "Throw"}
             errors == pushAll([i \in 1..n |->
                                  IF r[i].tag = "Left" THEN r[i].left ELSE <<>>])
             \* mergeAll(u, us): a key takes the value of the member that changed it
             changed(k) == {i \in 1..n : k \in DOMAIN r[i].right.f
                                          /\ (k \notin DOMAIN u.f \/ r[i].right.f[k] # u.f[k])}
             allKeys == UNION {DOMAIN r[i].right.f : i \in 1..n}
             merged == [k \in allKeys |->
                          IF changed(k) # {} THEN r[FirstIndex(changed(k))].right.f[k]
                          ELSE u.f[k]]
         IN IF thrown # {} THEN r[FirstIndex(thrown)]
            ELSE IF Len(errors) > 0 THEN Left(errors)
            ELSE IF IsObj(u) THEN Right(Obj(merged)) ELSE Right(u)
    [] codec.kind = "array" ->
         IF ~IsArr(u) THEN failure(u, path, codec.name)
         ELSE LET us == u.a
                  len == Len(us)
                  r == [i \in 1..len |->
                          codecValidate(codec.item, us[i], path \o <<ToString(i - 1)>>)]
                  thrown == {i \in 1..len : r[i].tag = "Throw"}
                  errors == pushAll([i \in 1..len |->
                                       IF r[i].tag = "Left" THEN r[i].left ELSE <<>>])
              IN IF thrown # {} THEN r[FirstIndex(thrown)]
                 ELSE IF Len(errors) > 0 THEN Left(errors)
                 ELSE Right(Arr([i \in 1..len |-> r[i].right]))

\* codec.decode(u): validate at the root context
decode(codec, u) == codecValidate(codec, u, <<>>)

\* codec.is(u) of a leaf codec or a union of leaf codecs
codecIs(codec, u) ==
  IF codec.kind = "union"
  THEN \E i \in 1..Len(codec.members) : LeafIs(codec.members[i].name, u)
  ELSE LeafIs(codec.name, u)

(***************************************************************************)
(* Product schemas                                                         *)
(***************************************************************************)
\* mutant: the optional fields of a product are not declared
ProductSchemaUndeclared ==
  Type("Product",
       <<Prop("id", Leaf("ProductId")),
         Prop("name", Leaf("ProductName")),
         Prop("price", Leaf("Price")),
         Prop("stock_quantity", Leaf("Quantity")),
         Prop("category_id", Leaf("CategoryId")),
         Prop("is_active", Leaf("boolean")),
         Prop("created_at", Leaf("DateTime"))>>)

ProductSchema ==
  Type("Product",
       <<Prop("id", Leaf("ProductId")),
         Prop("name", Leaf("ProductName")),
         Prop("description", Union("(string | undefined)", <<Leaf("string"), Leaf("undefined")>>)),
         Prop("price", Leaf("Price")),
         Prop("stock_quantity", Leaf("Quantity")),
         Prop("category_id", Leaf("CategoryId")),
         Prop("image_url", Union("(URL | undefined)", <<Leaf("URL"), Leaf("undefined")>>)),
         Prop("is_active", Leaf("boolean")),
         Prop("created_at", Leaf("DateTime")),
         Prop("updated_at", Union("(DateTime | undefined)", <<Leaf("DateTime"), Leaf("undefined")>>))>>)

ProductCreateSchema ==
  Intersection("ProductCreate",
    <<Type("ProductCreateRequired",
           <<Prop("name", Leaf("ProductName")),
             Prop("price", Leaf("number")),
             Prop("category_id", Leaf("number"))>>),
      Partial("ProductCreateOptional",
           <<Prop("description", Leaf("string")),
             Prop("stock_quantity", Leaf("number")),
             Prop("image_url", Leaf("string")),
             Prop("is_active", Leaf("boolean"))>>)>>)

\* mutant: the update schema is declared with t.type, every field required
ProductUpdateSchemaRequired ==
  Type("ProductUpdate",
       <<Prop("name", Leaf("ProductName")),
         Prop("description", Leaf("string")),
         Prop("price", Leaf("number")),
         Prop("stock_quantity", Leaf("number")),
         Prop("category_id", Leaf("number")),
         Prop("image_url", Leaf("string")),
         Prop("is_active", Leaf("boolean"))>>)

ProductUpdateSchema ==
  Partial("ProductUpdate",
       <<Prop("name", Leaf("ProductName")),
         Prop("description", Leaf("string")),
         Prop("price", Leaf("number")),
         Prop("stock_quantity", Leaf("number")),
         Prop("category_id", Leaf("number")),
         Prop("image_url", Leaf("string")),
         Prop("is_active", Leaf("boolean"))>>)

\* mutant: the list schema requires an image URL
ProductListSchemaImageRequired ==
  Type("ProductList",
       <<Prop("id", Leaf("ProductId")),
         Prop("name", Leaf("string")),
         Prop("price", Leaf("Price")),
         Prop("image_url", Leaf("string")),
         Prop("is_active", Leaf("boolean"))>>)

ProductListSchema ==
  Type("ProductList",
       <<Prop("id", Leaf("ProductId")),
         Prop("name", Leaf("string")),
         Prop("price", Leaf("Price")),
         Prop("image_url", Union("(string | undefined)", <<Leaf("string"), Leaf("undefined")>>)),
         Prop("is_active", Leaf("boolean"))>>)

(***************************************************************************)
(* Order and user schemas                                                  *)
(***************************************************************************)
OrderStatusSchema ==
  Union("OrderStatus",
        <<Literal("pending"), Literal("confirmed"), Literal("shipped"),
          Literal("delivered"), Literal("cancelled")>>)

OrderItemSchema ==
  Type("OrderItem",
       <<Prop("id", Leaf("OrderItemId")),
         Prop("order_id", Leaf("OrderId")),
         Prop("product_id", Leaf("ProductId")),
         Prop("quantity", Leaf("Quantity")),
         Prop("unit_price", Leaf("Price")),
         Prop("subtotal", Leaf("Price"))>>)

OrderSchema ==
  Type("Order",
       <<Prop("id", Leaf("OrderId")),
         Prop("user_id", Leaf("UserId")),
         Prop("total_amount", Leaf("Price")),
         Prop("status", OrderStatusSchema),
         Prop("shipping_address", Leaf("ShippingAddress")),
         Prop("created_at", Leaf("DateTime")),
         Prop("updated_at", Union("(DateTime | undefined)", <<Leaf("DateTime"), Leaf("undefined")>>)),
         Prop("order_items", Array(OrderItemSchema))>>)

OrderUpdateSchema ==
  Partial("OrderUpdate",
       <<Prop("status", OrderStatusSchema),
         Prop("shipping_address", Leaf("ShippingAddress"))>>)

OrderListSchema ==
  Type("OrderList",
       <<Prop("id", Leaf("OrderId")),
         Prop("total_amount", Leaf("Price")),
         Prop("status", OrderStatusSchema),
         Prop("created_at", Leaf("DateTime"))>>)

UserRoleSchema == Union("UserRole", <<Literal("customer"), Literal("admin")>>)

UserSchema ==
  Type("User",
       <<Prop("id", Leaf("UserId")),
         Prop("email", Leaf("Email")),
         Prop("name", Leaf("UserName")),
         Prop("role", UserRoleSchema),
         Prop("created_at", Leaf("DateTime")),
         Prop("updated_at", Union("(DateTime | undefined)", <<Leaf("DateTime"), Leaf("undefined")>>))>>)

(***************************************************************************)
(* Result (neverthrow) and the decode-to-Result bridge                     *)
(***************************************************************************)
ok(value) == [tag |-> "Ok", value |-> value]

err(error) == [tag |-> "Err", error |-> error]

\* a function returning a plain value
Return(value) == [tag |-> "Return", value |-> value]

isRight(result) == result.tag = "Right"

\* price * (1 - discountPercent / 100) for an integral or half-integral price
\* and a percentage of 0, 50 or 100, where the arithmetic is exact
discountedPrice(price, discountPercent) ==
  LET p2 == IF price.k = "frac" THEN 2 * price.v + 1 ELSE 2 * price.v
      n == p2 * (100 - discountPercent)
  IN CASE n % 200 = 0 -> IntV(n \div 200)
       [] n % 200 = 100 -> HalfV(n \div 200)
       [] OTHER -> Num("quarter", n \div 50)

\* a function passed to map or andThen: the arrow function of
\* fetchProductWithDiscount, or the stock test of checkStock
withDiscount(discountPercent) == [name |-> "withDiscount", arg |-> discountPercent]

requireStock(requestedQuantity) == [name |-> "requireStock", arg |-> requestedQuantity]

\* f(value)
Call(f, value) ==
  CASE f.name = "withDiscount" ->
         Obj([product |-> value,
              discountedPrice |-> discountedPrice(Get(value, "price"), f.arg)])
    [] f.name = "requireStock" ->
         IF Get(value, "stock_quantity").v < f.arg
         THEN err([type |-> "OutOfStock", productId |-> Get(value, "id"),
                   requested |-> f.arg])
         ELSE ok(Bool(TRUE))

\* mutant: the function is invoked on the error of an Err as well
mapInvokesOnErr(result, f) ==
  IF result.tag = "Ok"
  THEN [result |-> ok(Call(f, result.value)), applied |-> <<result.value>>]
  ELSE [result |-> err(result.error), applied |-> <<result.error>>]

\* result.map(f): the Result returned and the arguments f was invoked with
map(result, f) ==
  IF result.tag = "Ok"
  THEN [result |-> ok(Call(f, result.value)), applied |-> <<result.value>>]
  ELSE [result |-> err(result.error), applied |-> <<>>]

\* result.andThen(f), f returning a Result
andThen(result, f) ==
  IF result.tag = "Ok"
  THEN [result |-> Call(f, result.value), applied |-> <<result.value>>]
  ELSE [result |-> err(result.error), applied |-> <<>>]

\* PathReporter.report of a Left: one message per validation error, in order
getMessage(e) ==
  [text |-> "Invalid value", value |-> e.value, suppliedTo |-> e.path, type |-> e.type]

PathReporter_report(result) ==
  [i \in 1..Len(result.left) |-> getMessage(result.left[i])]

\* `${prefix}${items.join(sep)}`
Joined(prefix, items, sep) == [prefix |-> prefix, items |-> items, sep |-> sep]

\* new Error(message), thrown
ThrowError(message) == Raise([t |-> "throw", k |-> "Error", v |-> 0, message |-> message])

Min(a, b) == IF a < b THEN a ELSE b

Max(a, b) == IF a > b THEN a ELSE b

\* Array.prototype.slice(0, end) for an integer end
slice0(xs, end) ==
  LET len == Len(xs)
      final == IF end < 0 THEN Max(len + end, 0) ELSE Min(end, len)
  IN SubSeq(xs, 1, final)

\* mutant: only the first validation error is reported
validateFirstErrorOnly(codec, data) ==
  LET result == decode(codec, data)
  IN IF result.tag = "Throw" THEN result
     ELSE IF isRight(result) THEN ok(result.right)
     ELSE err([type |-> "ValidationError",
               errors |-> <<Head(PathReporter_report(result))>>])

\* validate once codec.decode(data) has returned result (or raised)
validateDecoded(result) ==
  IF result.tag = "Throw" THEN result
  ELSE IF isRight(result) THEN ok(result.right)
  ELSE err([type |-> "ValidationError", errors |-> PathReporter_report(result)])

validate(codec, data) == validateDecoded(decode(codec, data))

\* mutant: an input that fails decode is returned as if it were valid
validateOrThrowLenient(codec, data) ==
  LET result == decode(codec, data)
  IN IF result.tag = "Throw" THEN result
     ELSE IF isRight(result) THEN Return(result.right)
     ELSE Return(data)

validateOrThrow(codec, data) ==
  LET result == decode(codec, data)
  IN IF result.tag = "Throw" THEN result
     ELSE IF isRight(result) THEN Return(result.right)
     ELSE LET errors == PathReporter_report(result)
          IN ThrowError(Joined("Validation failed:\n", errors, "\n"))

\* mutant: the invalid elements are dropped and the valid ones returned
validateArrayLenient(codec, data) ==
  LET r == [i \in 1..Len(data.a) |-> decode(codec, data.a[i])]
  IN ok(Arr(SelectSeq([i \in 1..Len(data.a) |-> IF isRight(r[i]) THEN r[i].right ELSE Null],
                      LAMBDA x : x # Null)))

\* mutant: decoding stops at the first invalid element
validateArrayFailFast(codec, data) ==
  LET bad == {i \in 1..Len(data.a) : ~isRight(decode(codec, data.a[i]))}
  IN IF bad = {} THEN validate(Array(codec), data)
     ELSE validate(Array(codec), Arr(SubSeq(data.a, 1, FirstIndex(bad))))

validateArray(codec, data) == validate(Array(codec), data)

\* mutant: validation is skipped only in production
validateInDevUnlessProduction(codec, data, NODE_ENV) ==
  IF NODE_ENV # "production" THEN validateOrThrow(codec, data)
  ELSE Return(data)

validateInDev(codec, data, NODE_ENV) ==
  IF NODE_ENV = "development" THEN validateOrThrow(codec, data)
  ELSE Return(data)

DefaultSampleSize == 10

\* mutant: the sample is one element longer than asked for
validateSampleOneMore(codec, data, sampleSizeArg) ==
  LET sampleSize == IF sampleSizeArg = Undefined THEN DefaultSampleSize
                    ELSE sampleSizeArg.v
      sampleResult == validate(Array(codec), Arr(slice0(data.a, sampleSize + 1)))
  IN IF sampleResult.tag # "Ok" THEN sampleResult
     ELSE ok(data)

\* sampleSizeArg is the third argument as passed: a number, or undefined
validateSample(codec, data, sampleSizeArg) ==
  LET sampleSize == IF sampleSizeArg = Undefined THEN DefaultSampleSize
                    ELSE sampleSizeArg.v
      sample == Arr(slice0(data.a, sampleSize))
      sampleResult == validate(Array(codec), sample)
  IN IF sampleResult.tag # "Ok" THEN sampleResult
     ELSE ok(data)

(***************************************************************************)
(* Product service.  Each function runs up to its await of the transport   *)
(* (Begin: the outcome is a result returned at once, or a request sent)    *)
(* and, when the transport settles, from the await to its return (Resume). *)
(* A transport outcome is a resolved response or a rejection with a fault; *)
(* a fault records what the catch clauses inspect.                         *)
(***************************************************************************)
NoRequest == [method |-> "none"]

Request(method, id, query, body) ==
  [method |-> method, resource |-> "/products", id |-> id, query |-> query, body |-> body]

Send(request) == [tag |-> "Send", request |-> request]

Resolve(data) == [kind |-> "resolve", data |-> data]

Reject(error) == [kind |-> "reject", error |-> error]

Text(str) == Joined(str, <<>>, "")

\* an AxiosError: status 0 stands for a fault without a response
AxiosError(status, message) ==
  [isAxiosError |-> TRUE, instanceofError |-> TRUE, status |-> status, message |-> Text(message)]

\* the Error object of an exception raised inside a try block
ErrorOf(raised) ==
  [isAxiosError |-> FALSE, instanceofError |-> TRUE, status |-> 0,
   message |-> IF "message" \in DOMAIN raised.thrown THEN raised.thrown.message
               ELSE Text(raised.thrown.k)]

NetworkError(message) == err([type |-> "NetworkError", message |-> message])

NotFoundStatus == 404

\* mutant: a fault other than a 404 is raised again
catchNotFoundRethrow(error, id) ==
  IF error.isAxiosError /\ error.status = NotFoundStatus
  THEN err([type |-> "NotFound", productId |-> id])
  ELSE Raise(error)

\* mutant: a 404 is reported as a NetworkError like any other fault
catchNeverNotFound(error, id) ==
  NetworkError(IF error.instanceofError THEN error.message ELSE Text("Unknown error"))

\* the catch clause of fetchProduct, updateProduct and deleteProduct
catchNotFound(error, id) ==
  IF error.isAxiosError /\ error.status = NotFoundStatus
  THEN err([type |-> "NotFound", productId |-> id])
  ELSE NetworkError(IF error.instanceofError THEN error.message ELSE Text("Unknown error"))

\* the catch clause of fetchProducts, fetchProductsByCategory and createProduct
catchNetwork(error) ==
  NetworkError(IF error.instanceofError THEN error.message ELSE Text("Unknown error"))

fetchProductBegin(id) == Send(Request("GET", id, Undefined, Undefined))

\* mutant: the identifier is kept in a variable shared by all calls, which
\* holds the identifier of the call issued last
fetchProductResumeSharedId(id, outcome) ==
  LET latest == {svc[c].id : c \in {c \in DOMAIN svc : svc[c].pc = "awaiting"
                                                       /\ svc[c].during # {}}}
      shared == IF latest = {} THEN id ELSE CHOOSE x \in latest : TRUE
  IN IF outcome.kind = "resolve"
     THEN LET validationResult == validate(ProductSchema, outcome.data)
          IN IF validationResult.tag = "Throw"
             THEN catchNotFound(ErrorOf(validationResult), shared)
             ELSE IF validationResult.tag = "Err"
             THEN NetworkError(Joined("Invalid product data: ",
                                      validationResult.error.errors, ", "))
             ELSE ok(validationResult.value)
     ELSE catchNotFound(outcome.error, shared)

\* mutant: the response is passed on without validation
fetchProductResumeUnvalidated(id, outcome) ==
  IF outcome.kind = "resolve" THEN ok(outcome.data)
  ELSE catchNotFound(outcome.error, id)

fetchProductResume(id, outcome) ==
  IF outcome.kind = "resolve"
  THEN LET validationResult == validate(ProductSchema, outcome.data)
       IN IF validationResult.tag = "Throw" THEN catchNotFound(ErrorOf(validationResult), id)
          ELSE IF validationResult.tag = "Err"
          THEN NetworkError(Joined("Invalid product data: ",
                                   validationResult.error.errors, ", "))
          ELSE ok(validationResult.value)
  ELSE catchNotFound(outcome.error, id)

fetchProductsBegin == Send(Request("GET", Undefined, Undefined, Undefined))

fetchProductsResume(outcome) ==
  IF outcome.kind = "resolve"
  THEN LET validationResult == validateArray(ProductSchema, outcome.data)
       IN IF validationResult.tag = "Throw" THEN catchNetwork(ErrorOf(validationResult))
          ELSE IF validationResult.tag = "Err"
          THEN NetworkError(Joined("Invalid products data: ",
                                   validationResult.error.errors, ", "))
          ELSE ok(validationResult.value)
  ELSE catchNetwork(outcome.error)

fetchProductsByCategoryBegin(categoryId) ==
  Send(Request("GET", Undefined, categoryId, Undefined))

fetchProductsByCategoryResume(categoryId, outcome) ==
  IF outcome.kind = "resolve"
  THEN LET validationResult == validateArray(ProductSchema, outcome.data)
       IN IF validationResult.tag = "Throw" THEN catchNetwork(ErrorOf(validationResult))
          ELSE IF validationResult.tag = "Err"
          THEN NetworkError(Joined("Invalid products data: ",
                                   validationResult.error.errors, ", "))
          ELSE ok(validationResult.value)
  ELSE catchNetwork(outcome.error)

\* mutant: the payload is sent without being validated
createProductBeginUnvalidated(data) == Send(Request("POST", Undefined, Undefined, data))

createProductBegin(data) ==
  LET inputValidation == validate(ProductCreateSchema, data)
  IN IF inputValidation.tag = "Throw" THEN inputValidation
     ELSE IF inputValidation.tag = "Err"
     THEN NetworkError(Joined("Invalid input data: ", inputValidation.error.errors, ", "))
     ELSE Send(Request("POST", Undefined, Undefined, inputValidation.value))

createProductResume(data, outcome) ==
  IF outcome.kind = "resolve"
  THEN LET validationResult == validate(ProductSchema, outcome.data)
       IN IF validationResult.tag = "Throw" THEN catchNetwork(ErrorOf(validationResult))
          ELSE IF validationResult.tag = "Err"
          THEN NetworkError(Joined("Invalid response data: ",
                                   validationResult.error.errors, ", "))
          ELSE ok(validationResult.value)
  ELSE catchNetwork(outcome.error)

updateProductBegin(id, data) ==
  LET inputValidation == validate(ProductUpdateSchema, data)
  IN IF inputValidation.tag = "Throw" THEN inputValidation
     ELSE IF inputValidation.tag = "Err"
     THEN NetworkError(Joined("Invalid input data: ", inputValidation.error.errors, ", "))
     ELSE Send(Request("PUT", id, Undefined, inputValidation.value))

updateProductResume(id, data, outcome) ==
  IF outcome.kind = "resolve"
  THEN LET validationResult == validate(ProductSchema, outcome.data)
       IN IF validationResult.tag = "Throw" THEN catchNotFound(ErrorOf(validationResult), id)
          ELSE IF validationResult.tag = "Err"
          THEN NetworkError(Joined("Invalid response data: ",
                                   validationResult.error.errors, ", "))
          ELSE ok(validationResult.value)
  ELSE catchNotFound(outcome.error, id)

deleteProductBegin(id) == Send(Request("DELETE", id, Undefined, Undefined))

deleteProductResume(id, outcome) ==
  IF outcome.kind = "resolve" THEN ok(Undefined)
  ELSE catchNotFound(outcome.error, id)

fetchProductWithDiscountBegin(id, discountPercent) == fetchProductBegin(id)

\* mutant: the discount is computed from the Result's value without asking
\* whether the Result is Ok
fetchProductWithDiscountResumeUnchecked(id, discountPercent, outcome) ==
  LET result == fetchProductResume(id, outcome)
  IN IF result.tag = "Ok" THEN map(result, withDiscount(discountPercent))
     ELSE [result |-> ok(Obj([product |-> Undefined, discountedPrice |-> NaN])),
           applied |-> <<Undefined>>]

\* the Result returned and the arguments the arrow function was invoked with
fetchProductWithDiscountResume(id, discountPercent, outcome) ==
  LET result == fetchProductResume(id, outcome)
  IN map(result, withDiscount(discountPercent))

checkStockBegin(id) == fetchProductBegin(id)

\* mutant: a request for exactly the stock is refused
checkStockReturnAtMost(id, requestedQuantity, productResult) ==
  IF productResult.tag = "Err" THEN err(productResult.error)
  ELSE IF Get(productResult.value, "stock_quantity").v <= requestedQuantity
  THEN err([type |-> "OutOfStock", productId |-> id, requested |-> requestedQuantity])
  ELSE ok(Bool(TRUE))

\* checkStock once fetchProduct has returned productResult
checkStockReturn(id, requestedQuantity, productResult) ==
  IF productResult.tag = "Err" THEN err(productResult.error)
  ELSE IF Get(productResult.value, "stock_quantity").v < requestedQuantity
  THEN err([type |-> "OutOfStock", productId |-> id, requested |-> requestedQuantity])
  ELSE ok(Bool(TRUE))

checkStockResume(id, requestedQuantity, outcome) ==
  checkStockReturn(id, requestedQuantity, fetchProductResume(id, outcome))

fetchProductAsyncBegin(id) == Send(Request("GET", id, Undefined, Undefined))

\* the callback given to then, once validate has returned validationResult:
\* the value the promise is fulfilled with, or the exception it is rejected with
fetchProductAsyncThen(validationResult) ==
  IF validationResult.tag = "Throw" THEN Reject(ErrorOf(validationResult))
  ELSE IF validationResult.tag = "Err"
  THEN Reject([isAxiosError |-> FALSE, instanceofError |-> TRUE, status |-> 0,
               message |-> Joined("Invalid product data: ",
                                  validationResult.error.errors, ", ")])
  ELSE Resolve(validationResult.value)

\* mutant: every fault other than a 404 is reported as an unknown error
fetchProductAsyncErrorUnknown(error, id) ==
  IF error.isAxiosError /\ error.status = NotFoundStatus
  THEN err([type |-> "NotFound", productId |-> id])
  ELSE NetworkError(Text("Unknown error"))

\* the error function given to fromPromise
fetchProductAsyncError(error, id) ==
  IF error.isAxiosError
  THEN IF error.status = NotFoundStatus
       THEN err([type |-> "NotFound", productId |-> id])
       ELSE NetworkError(IF error.instanceofError THEN error.message
                         ELSE Text("Unknown error"))
  ELSE NetworkError(IF error.instanceofError THEN error.message ELSE Text("Unknown error"))

\* fromPromise(promise, errorFn) once the promise has settled
fromPromise(id, settled) ==
  IF settled.kind = "resolve" THEN ok(settled.data)
  ELSE fetchProductAsyncError(settled.error, id)

fetchProductAsyncResume(id, outcome) ==
  IF outcome.kind = "resolve"
  THEN fromPromise(id, fetchProductAsyncThen(validate(ProductSchema, outcome.data)))
  ELSE fromPromise(id, outcome)

\* a call from its await to its return: the Result returned and the
\* invocations of a function passed to map during the call
Resume(call, outcome) ==
  CASE call.fn = "fetchProduct" ->
         [result |-> fetchProductResume(call.id, outcome), applied |-> <<>>]
    [] call.fn = "fetchProducts" ->
         [result |-> fetchProductsResume(outcome), applied |-> <<>>]
    [] call.fn = "fetchProductsByCategory" ->
         [result |-> fetchProductsByCategoryResume(call.id, outcome), applied |-> <<>>]
    [] call.fn = "createProduct" ->
         [result |-> createProductResume(call.data, outcome), applied |-> <<>>]
    [] call.fn = "updateProduct" ->
         [result |-> updateProductResume(call.id, call.data, outcome), applied |-> <<>>]
    [] call.fn = "deleteProduct" ->
         [result |-> deleteProductResume(call.id, outcome), applied |-> <<>>]
    [] call.fn = "fetchProductWithDiscount" ->
         fetchProductWithDiscountResume(call.id, call.arg, outcome)
    [] call.fn = "checkStock" ->
         [result |-> checkStockResume(call.id, call.arg, outcome), applied |-> <<>>]
    [] call.fn = "fetchProductAsync" ->
         [result |-> fetchProductAsyncResume(call.id, outcome), applied |-> <<>>]

(***************************************************************************)
(* Inputs                                                                  *)
(***************************************************************************)
MaxInt == 2

Numbers ==
  {IntV(i) : i \in (-MaxInt..MaxInt) \cup {-5, 42, 15000}}
    \cup {HalfV(i) : i \in -1..1}
    \cup {NaN, Infinity, NegInfinity}

NonNumbers == {Str("text", 1), Bool(TRUE), Undefined, Null}

ProductKeys ==
  {"id", "name", "description", "price", "stock_quantity", "category_id",
   "image_url", "is_active", "created_at", "updated_at"}

\* { id: 1, name: "Headphones", price: 15000, stock_quantity: 10, category_id: 1,
\*   is_active: true, created_at: "2024-01-01T00:00:00Z" }
BaseFields ==
  [id |-> IntV(1), name |-> Str("text", 10), description |-> Absent,
   price |-> IntV(15000), stock_quantity |-> IntV(10), category_id |-> IntV(1),
   image_url |-> Absent, is_active |-> Bool(TRUE), created_at |-> Str("date", 20),
   updated_at |-> Absent]

BaseProduct == Obj(BaseFields)

\* the values each field is varied over
FieldSamples(k) ==
  CASE k = "id" -> <<IntV(0), IntV(-5), IntV(42), HalfV(1), Str("text", 1), Absent>>
    [] k = "name" -> <<Str("text", 0), Str("text", 1), Str("text", 200), Str("text", 201),
                       IntV(1), Absent>>
    [] k = "description" -> <<Str("text", 12), Str("text", 0), Null, IntV(1), Undefined,
                              Bool(FALSE)>>
    [] k = "price" -> <<IntV(-100), IntV(0), HalfV(0), NaN, Infinity, Absent>>
    [] k = "stock_quantity" -> <<IntV(-1), IntV(0), HalfV(2), NaN, Str("text", 2), Absent>>
    [] k = "category_id" -> <<IntV(0), IntV(7), HalfV(1), Null, Str("text", 1), Absent>>
    [] k = "image_url" -> <<Str("url", 24), Str("text", 5), Null, Undefined, IntV(1),
                            Str("text", 0)>>
    [] k = "is_active" -> <<Bool(FALSE), IntV(1), Str("text", 4), Null, Undefined, Absent>>
    [] k = "created_at" -> <<Str("date", 10), Str("text", 7), IntV(0), Null,
                             Str("url", 24), Absent>>
    [] k = "updated_at" -> <<Str("date", 20), Str("text", 3), Null, Undefined, IntV(0),
                             Str("url", 24)>>

\* the largest number of fields in which a payload differs from the base payload
MaxVaried == 2

\* the base payload with the fields of S replaced by samples
Varied(S) ==
  {Obj([k \in ProductKeys |-> IF k \in S THEN FieldSamples(k)[g[k]] ELSE BaseFields[k]]) :
     g \in [S -> 1..Len(FieldSamples("id"))]}

PayloadsVarying(n) ==
  UNION {Varied(S) : S \in {T \in SUBSET ProductKeys : Cardinality(T) <= n}}

ProductPayloads == PayloadsVarying(MaxVaried)

SmallPayloads == PayloadsVarying(1)

NonObjects == {Null, Undefined, IntV(1), Str("text", 4), Arr(<<>>)}

MaxArrayLen == 3

ArrayElems ==
  {BaseProduct,
   Obj([BaseFields EXCEPT !.price = IntV(-100)]),
   Obj([BaseFields EXCEPT !.name = Str("text", 201), !.stock_quantity = NaN]),
   Null}

SeqsUpTo(S, n) == UNION {[1..m -> S] : m \in 0..n}

RECURSIVE Repeat(_, _)
Repeat(x, n) == IF n <= 0 THEN <<>> ELSE <<x>> \o Repeat(x, n - 1)

\* short arrays, and arrays reaching past the default sample size
Arrays ==
  {Arr(xs) : xs \in SeqsUpTo(ArrayElems, MaxArrayLen)}
    \cup {Arr(Repeat(BaseProduct, DefaultSampleSize - d) \o t) :
            d \in {0, 1}, t \in SeqsUpTo(ArrayElems, MaxArrayLen - 1)}

SampleSizes == {Undefined} \cup {IntV(i) : i \in -1..(MaxArrayLen + 1)}

\* process.env.NODE_ENV; "<unset>" stands for a variable that is not set
NodeEnvs == {"development", "production", "test", "staging", "", "<unset>"}

SchemaOf(name) ==
  CASE name = "ProductSchema" -> ProductSchema
    [] name = "ProductCreateSchema" -> ProductCreateSchema
    [] name = "ProductUpdateSchema" -> ProductUpdateSchema
    [] name = "ProductListSchema" -> ProductListSchema

NoOut == [tag |-> "none"]

NomIdle == [pc |-> "idle", type |-> "", p |-> Undefined, value |-> Undefined, guard |-> "none"]

BrCall(fn, schema, data, arg, env) ==
  [pc |-> "start", fn |-> fn, schema |-> schema, data |-> data, arg |-> arg,
   env |-> env, out |-> NoOut]

BrIdle == [BrCall("", "", Undefined, Undefined, "") EXCEPT !.pc = "idle"]

ProductIds == {IntV(1), IntV(42)}

CategoryIds == {IntV(7)}

CreateFields == [name |-> Str("text", 10), price |-> IntV(15000), category_id |-> IntV(1)]

\* payloads passed to createProduct: three the create schema accepts, four it rejects
CreateInputs ==
  {Obj(CreateFields),
   Obj([name |-> Str("text", 10), price |-> IntV(15000), category_id |-> IntV(1),
        description |-> Str("text", 12), stock_quantity |-> IntV(10)]),
   Obj([CreateFields EXCEPT !.price = IntV(-100)]),
   Obj([CreateFields EXCEPT !.name = Str("text", 0)]),
   Obj([CreateFields EXCEPT !.price = Absent]),
   Obj([name |-> Str("text", 10), price |-> IntV(15000), category_id |-> IntV(1),
        description |-> Null]),
   Obj([CreateFields EXCEPT !.name = Str("text", 201), !.price = Str("text", 5)])}

\* payloads passed to updateProduct: three the update schema accepts, two it rejects
UpdateInputs ==
  {Obj([k \in {} |-> Absent]),
   Obj([price |-> IntV(10)]),
   Obj([price |-> IntV(-100)]),
   Obj([name |-> Str("text", 0)]),
   Obj([is_active |-> Str("text", 4), price |-> Null])}

ProductResponses == ArrayElems

ListResponses ==
  {Arr(<<>>), Arr(<<BaseProduct>>),
   Arr(<<BaseProduct, Obj([BaseFields EXCEPT !.price = IntV(-100)])>>),
   Arr(<<Obj([BaseFields EXCEPT !.price = IntV(-100)]),
         Obj([BaseFields EXCEPT !.name = Str("text", 201), !.stock_quantity = NaN])>>),
   BaseProduct}

\* the rejections of the transport: not found, a server error, no response
Faults ==
  {AxiosError(404, "Request failed with status code 404"),
   AxiosError(500, "Request failed with status code 500"),
   AxiosError(0, "Network Error")}

ResponsesFor(fn) ==
  CASE fn \in {"fetchProduct", "createProduct", "updateProduct",
               "fetchProductWithDiscount", "checkStock", "fetchProductAsync"} ->
         ProductResponses
    [] fn \in {"fetchProducts", "fetchProductsByCategory"} -> ListResponses
    [] OTHER -> {Undefined}

\* quantities passed to checkStock: the stock of the base product and one more
StockRequests == {10, 11}

\* percentages passed to fetchProductWithDiscount
DiscountPercents == {0, 50, 100}

Callers == {"c1", "c2"}

NoOutcome == [kind |-> "none"]

IdleCall ==
  [pc |-> "idle", fn |-> "", id |-> Undefined, data |-> Undefined, arg |-> 0,
   request |-> NoRequest, outcome |-> NoOutcome, result |-> NoOut, applied |-> <<>>, during |-> {}]

SvcIdle == [c \in Callers |-> IdleCall]

\* the components a specification leaves out stay idle
DecIdle == [pc |-> "idle"]

ResIdle == [pc |-> "idle"]

BootIdle == [pc |-> "idle"]

UiIdle == [pc |-> "idle"]

CartIdle == [pc |-> "idle"]

OrdIdle == [pc |-> "idle"]

(***************************************************************************)
(* Decode-to-Result bridge: a caller invokes one bridge function and       *)
(* receives its outcome.                                                   *)
(***************************************************************************)
BrInit ==
  /\ br \in {BrCall("validate", "ProductSchema", d, Undefined, "") :
               d \in ProductPayloads \cup NonObjects}
            \cup {BrCall("validate", s, d, Undefined, "") :
                    s \in {"ProductCreateSchema", "ProductUpdateSchema", "ProductListSchema"},
                    d \in SmallPayloads \cup CreateInputs \cup UpdateInputs \cup NonObjects}
            \cup {BrCall("validateOrThrow", "ProductSchema", d, Undefined, "") :
                    d \in SmallPayloads \cup NonObjects}
            \cup {BrCall("validateOrThrow", s, d, Undefined, "") :
                    s \in {"ProductCreateSchema", "ProductUpdateSchema", "ProductListSchema"},
                    d \in CreateInputs \cup UpdateInputs \cup NonObjects}
            \cup {BrCall("validateInDev", "ProductSchema", d, Undefined, e) :
                    d \in SmallPayloads \cup NonObjects, e \in NodeEnvs}
            \cup {BrCall("validateArray", "ProductSchema", d, Undefined, "") : d \in Arrays}
            \cup {BrCall("validateSample", "ProductSchema", d, n, "") :
                    d \in Arrays, n \in SampleSizes}
  /\ nom = NomIdle
  /\ svc = SvcIdle
  /\ dec = DecIdle /\ res = ResIdle /\ boot = BootIdle /\ ui = UiIdle /\ cart = CartIdle /\ ord = OrdIdle

BrValidate ==
  /\ br.pc = "start" /\ br.fn = "validate"
  /\ br' = [br EXCEPT !.pc = "done", !.out = validate(SchemaOf(br.schema), br.data)]
  /\ UNCHANGED <<nom, svc, dec, res, boot, ui, cart, ord>>

BrValidateOrThrow ==
  /\ br.pc = "start" /\ br.fn = "validateOrThrow"
  /\ br' = [br EXCEPT !.pc = "done", !.out = validateOrThrow(SchemaOf(br.schema), br.data)]
  /\ UNCHANGED <<nom, svc, dec, res, boot, ui, cart, ord>>

BrValidateArray ==
  /\ br.pc = "start" /\ br.fn = "validateArray"
  /\ br' = [br EXCEPT !.pc = "done", !.out = validateArray(SchemaOf(br.schema), br.data)]
  /\ UNCHANGED <<nom, svc, dec, res, boot, ui, cart, ord>>

BrValidateInDev ==
  /\ br.pc = "start" /\ br.fn = "validateInDev"
  /\ br' = [br EXCEPT !.pc = "done",
                      !.out = validateInDev(SchemaOf(br.schema), br.data, br.env)]
  /\ UNCHANGED <<nom, svc, dec, res, boot, ui, cart, ord>>

BrValidateSample ==
  /\ br.pc = "start" /\ br.fn = "validateSample"
  /\ br' = [br EXCEPT !.pc = "done",
                      !.out = validateSample(SchemaOf(br.schema), br.data, br.arg)]
  /\ UNCHANGED <<nom, svc, dec, res, boot, ui, cart, ord>>

BrNext ==
  BrValidate \/ BrValidateOrThrow \/ BrValidateArray \/ BrValidateInDev \/ BrValidateSample

SpecBridge == BrInit /\ [][BrNext]_vars

(***************************************************************************)
(* Nominal layer: a caller constructs a nominal value from a number and    *)
(* narrows it with the type's guard, or applies the guard to any value.    *)
(***************************************************************************)
NomInit ==
  /\ nom \in {[pc |-> "start", type |-> n, p |-> p, value |-> Undefined, guard |-> "none"] :
                n \in NominalTypes, p \in Numbers \cup NonNumbers}
  /\ br = BrIdle
  /\ svc = SvcIdle
  /\ dec = DecIdle /\ res = ResIdle /\ boot = BootIdle /\ ui = UiIdle /\ cart = CartIdle /\ ord = OrdIdle

NomConstruct ==
  /\ nom.pc = "start"
  /\ nom.p.t = "number"
  /\ LET r == Construct(nom.type, nom.p)
     IN nom' = IF IsThrown(r)
               THEN [nom EXCEPT !.pc = "thrown", !.value = r]
               ELSE [nom EXCEPT !.pc = "constructed", !.value = r]
  /\ UNCHANGED <<br, svc, dec, res, boot, ui, cart, ord>>

NomGuard ==
  /\ nom.pc = "constructed"
  /\ nom' = [nom EXCEPT !.pc = "guarded", !.guard = CallGuard(nom.type, nom.value)]
  /\ UNCHANGED <<br, svc, dec, res, boot, ui, cart, ord>>

NomGuardUnknown ==
  /\ nom.pc = "start"
  /\ nom' = [nom EXCEPT !.pc = "checked", !.guard = CallGuard(nom.type, nom.p)]
  /\ UNCHANGED <<br, svc, dec, res, boot, ui, cart, ord>>

\* the nominal types a schema module defines a codec for
NominalCodecs ==
  {"ProductId", "CategoryId", "UserId", "OrderId", "OrderItemId", "Price", "Quantity"}

\* a caller decodes any value with the codec of a nominal type
NomDecode ==
  /\ nom.pc = "start"
  /\ nom.type \in NominalCodecs
  /\ nom' = [nom EXCEPT !.pc = "decoded", !.value = decode(Leaf(nom.type), nom.p)]
  /\ UNCHANGED <<br, svc, dec, res, boot, ui, cart, ord>>

NomNext == NomConstruct \/ NomGuard \/ NomGuardUnknown \/ NomDecode

SpecNominal == NomInit /\ [][NomNext]_vars

(***************************************************************************)
(* Service calls: each caller invokes one service function; the call runs  *)
(* to its await, the transport settles the request at some later time and  *)
(* the call runs to its return.  Calls of different callers interleave.    *)
(***************************************************************************)
SvcInit ==
  /\ svc = [c \in Callers |-> IdleCall]
  /\ nom = NomIdle
  /\ br = BrIdle
  /\ dec = DecIdle /\ res = ResIdle /\ boot = BootIdle /\ ui = UiIdle /\ cart = CartIdle /\ ord = OrdIdle

\* the call record after fn has run up to its await: begun is either the
\* request it sent or the result it returned at once
Invoked(fn, id, data, begun) ==
  IF begun.tag = "Send"
  THEN [IdleCall EXCEPT !.pc = "awaiting", !.fn = fn, !.id = id, !.data = data,
                        !.request = begun.request]
  ELSE [IdleCall EXCEPT !.pc = "returned", !.fn = fn, !.id = id, !.data = data,
                        !.result = begun]

\* the call record of a call that has returned; during: the callers whose
\* request was in flight when a fetchProduct call was made
Returned(call, outcome, resumed) ==
  [call EXCEPT !.pc = "returned", !.outcome = outcome, !.result = resumed.result,
               !.applied = resumed.applied]

\* the call record after the awaited request has settled with outcome
Settled(call, outcome) == Returned(call, outcome, Resume(call, outcome))

CallFetchProduct(c) ==
  /\ svc[c].pc = "idle"
  /\ \E id \in ProductIds :
       svc' = [svc EXCEPT ![c] =
                 [Invoked("fetchProduct", id, Undefined, fetchProductBegin(id))
                    EXCEPT !.during = {d \in Callers : svc[d].pc = "awaiting"}]]
  /\ UNCHANGED <<nom, br, dec, res, boot, ui, cart, ord>>

CallFetchProducts(c) ==
  /\ svc[c].pc = "idle"
  /\ svc' = [svc EXCEPT ![c] = Invoked("fetchProducts", Undefined, Undefined,
                                       fetchProductsBegin)]
  /\ UNCHANGED <<nom, br, dec, res, boot, ui, cart, ord>>

CallFetchProductsByCategory(c) ==
  /\ svc[c].pc = "idle"
  /\ \E categoryId \in CategoryIds :
       svc' = [svc EXCEPT ![c] = Invoked("fetchProductsByCategory", categoryId, Undefined,
                                         fetchProductsByCategoryBegin(categoryId))]
  /\ UNCHANGED <<nom, br, dec, res, boot, ui, cart, ord>>

CallCreateProduct(c) ==
  /\ svc[c].pc = "idle"
  /\ \E data \in CreateInputs :
       svc' = [svc EXCEPT ![c] = Invoked("createProduct", Undefined, data,
                                         createProductBegin(data))]
  /\ UNCHANGED <<nom, br, dec, res, boot, ui, cart, ord>>

CallUpdateProduct(c) ==
  /\ svc[c].pc = "idle"
  /\ \E id \in ProductIds, data \in UpdateInputs :
       svc' = [svc EXCEPT ![c] = Invoked("updateProduct", id, data,
                                         updateProductBegin(id, data))]
  /\ UNCHANGED <<nom, br, dec, res, boot, ui, cart, ord>>

CallDeleteProduct(c) ==
  /\ svc[c].pc = "idle"
  /\ \E id \in ProductIds :
       svc' = [svc EXCEPT ![c] = Invoked("deleteProduct", id, Undefined,
                                         deleteProductBegin(id))]
  /\ UNCHANGED <<nom, br, dec, res, boot, ui, cart, ord>>

CallFetchProductWithDiscount(c) ==
  /\ svc[c].pc = "idle"
  /\ \E id \in ProductIds, discountPercent \in DiscountPercents :
       svc' = [svc EXCEPT ![c] =
                 [Invoked("fetchProductWithDiscount", id, Undefined,
                          fetchProductWithDiscountBegin(id, discountPercent))
                    EXCEPT !.arg = discountPercent]]
  /\ UNCHANGED <<nom, br, dec, res, boot, ui, cart, ord>>

CallCheckStock(c) ==
  /\ svc[c].pc = "idle"
  /\ \E id \in ProductIds, requestedQuantity \in StockRequests :
       svc' = [svc EXCEPT ![c] =
                 [Invoked("checkStock", id, Undefined, checkStockBegin(id))
                    EXCEPT !.arg = requestedQuantity]]
  /\ UNCHANGED <<nom, br, dec, res, boot, ui, cart, ord>>

CallFetchProductAsync(c) ==
  /\ svc[c].pc = "idle"
  /\ \E id \in ProductIds :
       svc' = [svc EXCEPT ![c] =
                 Invoked("fetchProductAsync", id, Undefined, fetchProductAsyncBegin(id))]
  /\ UNCHANGED <<nom, br, dec, res, boot, ui, cart, ord>>

TransportResolve(c) ==
  /\ svc[c].pc = "awaiting"
  /\ \E data \in ResponsesFor(svc[c].fn) :
       svc' = [svc EXCEPT ![c] = Settled(svc[c], Resolve(data))]
  /\ UNCHANGED <<nom, br, dec, res, boot, ui, cart, ord>>

TransportReject(c) ==
  /\ svc[c].pc = "awaiting"
  /\ \E error \in Faults :
       svc' = [svc EXCEPT ![c] = Settled(svc[c], Reject(error))]
  /\ UNCHANGED <<nom, br, dec, res, boot, ui, cart, ord>>

SvcNext ==
  \E c \in Callers :
    \/ CallFetchProduct(c)
    \/ CallFetchProducts(c)
    \/ CallFetchProductsByCategory(c)
    \/ CallCreateProduct(c)
    \/ CallUpdateProduct(c)
    \/ CallDeleteProduct(c)
    \/ CallFetchProductWithDiscount(c)
    \/ CallCheckStock(c)
    \/ CallFetchProductAsync(c)
    \/ TransportResolve(c)
    \/ TransportReject(c)

SpecService == SvcInit /\ [][SvcNext]_vars

(***************************************************************************)
(* C3                                                                      *)
(***************************************************************************)
\* the invariant the specification states for each nominal type
NominalInvariant(n, p) ==
  /\ p.t = "number"
  /\ CASE n = "Price" -> p.k \in {"int", "frac"} /\ p.v >= 0
       [] n = "Quantity" -> p.k = "int" /\ p.v >= 0
       [] OTHER -> p.k = "int" /\ p.v >= 1

\* C3: for every nominal type and every number p, the constructor returns p
\* when p satisfies the type's invariant and the type's guard is then true of
\* the result; when p violates the invariant the constructor throws and no
\* nominal value is produced.
C3_ConstructThenGuard ==
  /\ nom.pc = "thrown" => ~NominalInvariant(nom.type, nom.p)
  /\ nom.pc \in {"constructed", "guarded"} =>
       NominalInvariant(nom.type, nom.p) /\ nom.value = nom.p
  /\ nom.pc = "guarded" => nom.guard = "true"

(***************************************************************************)
(* C1, C2                                                                  *)
(***************************************************************************)
BridgeDone(fn) == br.pc = "done" /\ br.fn = fn

\* the fields of u that the guard of their codec rejects; a partial schema
\* passes over a field that reads undefined
PropsViolated(codec, u) ==
  {codec.props[i].key :
     i \in {j \in 1..Len(codec.props) :
              /\ ~codecIs(codec.props[j].codec, Get(u, codec.props[j].key))
              /\ codec.kind = "partial" => Get(u, codec.props[j].key) # Undefined}}

ViolatedFields(codec, u) ==
  IF codec.kind = "intersection"
  THEN UNION {PropsViolated(codec.members[i], u) : i \in 1..Len(codec.members)}
  ELSE PropsViolated(codec, u)

\* the field a message refers to: the first field name on its path, "" when
\* the path names no field
FieldOf(message) ==
  LET names == SelectSeq(message.suppliedTo, LAMBDA key : key \in ProductKeys)
  IN IF names = <<>> THEN "" ELSE names[1]

\* C1: validate returns Ok exactly when decode succeeds; otherwise it returns
\* Err of type ValidationError whose error list is non-empty, has an entry for
\* every violated field and whose every entry refers to a violated field.
C1_ValidateReportsEveryViolation ==
  BridgeDone("validate") =>
    LET codec == SchemaOf(br.schema)
        bad == IF IsObj(br.data) THEN ViolatedFields(codec, br.data) ELSE {}
        valid == IsObj(br.data) /\ bad = {}
    IN /\ (br.out.tag = "Ok") <=> isRight(decode(codec, br.data))
       /\ (br.out.tag = "Ok") <=> valid
       /\ ~valid =>
            /\ br.out.tag = "Err"
            /\ br.out.error.type = "ValidationError"
            /\ Len(br.out.error.errors) > 0
            /\ \A k \in bad :
                 \E i \in 1..Len(br.out.error.errors) : FieldOf(br.out.error.errors[i]) = k
            /\ IsObj(br.data) =>
                 \A i \in 1..Len(br.out.error.errors) :
                   FieldOf(br.out.error.errors[i]) \in bad

\* a payload with price -100 and a second violated field: both are reported
C1_Witness ==
  /\ BridgeDone("validate")
  /\ IsObj(br.data)
  /\ Get(br.data, "price") = IntV(-100)
  /\ Cardinality(ViolatedFields(ProductSchema, br.data)) = 2
  /\ br.out.tag = "Err"
  /\ {FieldOf(br.out.error.errors[i]) : i \in 1..Len(br.out.error.errors)}
       = ViolatedFields(ProductSchema, br.data)

\* the product full schema as the specification words it
OptionalOr(x, P(_)) == x = Undefined \/ P(x)

IsDateString(x) == x.t = "string" /\ x.k = "date"

IsUrlString(x) == x.t = "string" /\ x.k = "url"

IsAnyString(x) == x.t = "string"

SatisfiesProductSchema(u) ==
  /\ IsObj(u)
  /\ LET id == Get(u, "id") IN id.t = "number" /\ id.k = "int" /\ id.v >= 1
  /\ LET name == Get(u, "name") IN name.t = "string" /\ name.v >= 1 /\ name.v <= 200
  /\ LET price == Get(u, "price")
     IN price.t = "number" /\ price.k \in {"int", "frac"} /\ price.v >= 0
  /\ LET q == Get(u, "stock_quantity") IN q.t = "number" /\ q.k = "int" /\ q.v >= 0
  /\ LET c == Get(u, "category_id") IN c.t = "number" /\ c.k = "int" /\ c.v >= 1
  /\ Get(u, "is_active").t = "boolean"
  /\ IsDateString(Get(u, "created_at"))
  /\ OptionalOr(Get(u, "description"), IsAnyString)
  /\ OptionalOr(Get(u, "image_url"), IsUrlString)
  /\ OptionalOr(Get(u, "updated_at"), IsDateString)

\* reading any property gives the same value in both objects
StructurallyEqual(a, b) ==
  /\ IsObj(a) /\ IsObj(b)
  /\ \A k \in DOMAIN a.f \cup DOMAIN b.f : Get(a, k) = Get(b, k)

\* C2: every payload that satisfies the product full schema decodes to Ok
\* with a value structurally equal to the payload.
C2_ValidProductDecodesToItself ==
  (BridgeDone("validate") /\ br.schema = "ProductSchema"
     /\ SatisfiesProductSchema(br.data)) =>
    br.out.tag = "Ok" /\ StructurallyEqual(br.out.value, br.data)

\* the Headphones payload decodes to Ok with id 1 and price 15000
C2_Witness ==
  /\ BridgeDone("validate") /\ br.schema = "ProductSchema"
  /\ br.data = BaseProduct
  /\ br.out.tag = "Ok"
  /\ Get(br.out.value, "id") = IntV(1)
  /\ Get(br.out.value, "price") = IntV(15000)

(***************************************************************************)
(* C7, C8, C9, C10                                                         *)
(***************************************************************************)
ElementDecodes(e) == isRight(decode(ProductSchema, e))

\* the messages of element i of xs, as reported from the array's root
ElementMessages(xs, i) ==
  LET r == codecValidate(ProductSchema, xs[i], <<ToString(i - 1)>>)
  IN IF r.tag = "Left" THEN PathReporter_report(r) ELSE <<>>

\* C7: validateArray returns Ok holding the decoded elements in input order
\* exactly when every element decodes; otherwise the whole call is Err and
\* no list of the valid elements is returned.
C7_ArrayAllOrNothing ==
  BridgeDone("validateArray") =>
    LET xs == br.data.a
    IN /\ br.out.tag \in {"Ok", "Err"}
       /\ (br.out.tag = "Ok") <=> \A i \in 1..Len(xs) : ElementDecodes(xs[i])
       /\ br.out.tag = "Ok" =>
            br.out.value = Arr([i \in 1..Len(xs) |-> decode(ProductSchema, xs[i]).right])
       /\ br.out.tag = "Err" => "value" \notin DOMAIN br.out

\* an array with a valid and an invalid element fails as a whole
C7_Witness ==
  /\ BridgeDone("validateArray")
  /\ \E i, j \in 1..Len(br.data.a) :
       ElementDecodes(br.data.a[i]) /\ ~ElementDecodes(br.data.a[j])
  /\ br.out.tag = "Err"

\* C8 as stated: when validateArray fails, its error list is the error set of
\* the first invalid element only.
C8_OnlyFirstInvalidElement ==
  (BridgeDone("validateArray") /\ br.out.tag = "Err") =>
    LET xs == br.data.a
        bad == {i \in 1..Len(xs) : ~ElementDecodes(xs[i])}
    IN br.out.error.errors = ElementMessages(xs, FirstIndex(bad))

\* C8 as amended: when validateArray fails, its error list is the
\* concatenation, in input order, of the error sets of all invalid elements.
C8_EveryInvalidElement ==
  (BridgeDone("validateArray") /\ br.out.tag = "Err") =>
    LET xs == br.data.a
    IN br.out.error.errors = pushAll([i \in 1..Len(xs) |-> ElementMessages(xs, i)])

\* two invalid elements: the violations of the second are reported too
C8_Witness ==
  /\ BridgeDone("validateArray") /\ br.out.tag = "Err"
  /\ Cardinality({i \in 1..Len(br.data.a) : ~ElementDecodes(br.data.a[i])}) >= 2
  /\ Cardinality({br.out.error.errors[i].suppliedTo[1] :
                    i \in 1..Len(br.out.error.errors)}) >= 2

\* C9: validateSample(schema, inputs, n), n >= 0 and 10 when omitted, is Err
\* when one of the first n elements is invalid, and otherwise Ok with all of
\* inputs, whatever the elements at positions n and beyond are.
C9_SampleChecksOnlyFirstN ==
  (BridgeDone("validateSample") /\ (br.arg = Undefined \/ br.arg.v >= 0)) =>
    LET xs == br.data.a
        n == IF br.arg = Undefined THEN 10 ELSE br.arg.v
    IN IF \E i \in 1..Len(xs) : i <= n /\ ~ElementDecodes(xs[i])
       THEN br.out.tag = "Err"
       ELSE br.out = ok(br.data)

\* with n omitted, an invalid element beyond the tenth is accepted
C9_Witness ==
  /\ BridgeDone("validateSample") /\ br.arg = Undefined
  /\ \E i \in 1..Len(br.data.a) : i > 10 /\ ~ElementDecodes(br.data.a[i])
  /\ br.out = ok(br.data)

\* C10: validateInDev validates strictly (raising on invalid input) only when
\* NODE_ENV is development; otherwise it returns the input itself, unchecked.
C10_InDevOnly ==
  BridgeDone("validateInDev") =>
    LET d == decode(SchemaOf(br.schema), br.data)
    IN IF br.env = "development"
       THEN /\ isRight(d) => br.out = Return(d.right)
            /\ ~isRight(d) => br.out.tag = "Throw"
       ELSE br.out = Return(br.data)

\* outside development an invalid input comes back unchanged
C10_Witness ==
  /\ BridgeDone("validateInDev") /\ br.env = "production"
  /\ ~isRight(decode(SchemaOf(br.schema), br.data))
  /\ br.out = Return(br.data)

(***************************************************************************)
(* C4, C5, C6                                                              *)
(***************************************************************************)
InputSchema(fn) ==
  IF fn = "createProduct" THEN ProductCreateSchema ELSE ProductUpdateSchema

\* C4: createProduct validates its payload against ProductCreateSchema and
\* updateProduct against ProductUpdateSchema before the transport is invoked;
\* whenever that validation fails the call returns Err and sends no request.
C4_ValidateBeforeSend ==
  \A c \in Callers :
    (svc[c].fn \in {"createProduct", "updateProduct"}) =>
      LET inputValid == isRight(decode(InputSchema(svc[c].fn), svc[c].data))
      IN /\ svc[c].request # NoRequest => inputValid
         /\ ~inputValid =>
              svc[c].pc = "returned" /\ svc[c].result.tag = "Err"
                /\ svc[c].outcome = NoOutcome

\* createProduct with a payload the create schema rejects has returned Err
\* and sent nothing
C4_Witness ==
  \E c \in Callers :
    /\ svc[c].fn = "createProduct" /\ svc[c].pc = "returned"
    /\ ~isRight(decode(ProductCreateSchema, svc[c].data))
    /\ svc[c].result.tag = "Err"
    /\ svc[c].request = NoRequest

FullSchema(fn) ==
  IF fn \in {"fetchProducts", "fetchProductsByCategory"} THEN Array(ProductSchema)
  ELSE ProductSchema

\* C5: fetchProduct, fetchProducts, createProduct and updateProduct return
\* Ok(value) if and only if the transport call succeeded and the response
\* decoded against the full schema; a response that fails the schema gives
\* Err NetworkError whose message carries every validation message, joined.
C5_OkOnlyIfTransportAndDecodeSucceed ==
  \A c \in Callers :
    (svc[c].pc = "returned"
       /\ svc[c].fn \in {"fetchProduct", "fetchProducts", "createProduct", "updateProduct"}) =>
      LET resolved == svc[c].outcome.kind = "resolve"
          d == decode(FullSchema(svc[c].fn), svc[c].outcome.data)
      IN /\ (svc[c].result.tag = "Ok") <=> (resolved /\ isRight(d))
         /\ svc[c].result.tag = "Ok" => svc[c].result.value = d.right
         /\ (resolved /\ ~isRight(d)) =>
              /\ svc[c].result.tag = "Err"
              /\ svc[c].result.error.type = "NetworkError"
              /\ svc[c].result.error.message.items = PathReporter_report(d)
              /\ svc[c].result.error.message.sep = ", "

\* fetchProduct received a response with two violated fields and returned a
\* NetworkError carrying a message for each
C5_Witness ==
  \E c \in Callers :
    /\ svc[c].pc = "returned" /\ svc[c].fn = "fetchProduct"
    /\ svc[c].outcome.kind = "resolve"
    /\ IsObj(svc[c].outcome.data)
    /\ Cardinality(ViolatedFields(ProductSchema, svc[c].outcome.data)) = 2
    /\ svc[c].result.tag = "Err"
    /\ svc[c].result.error.type = "NetworkError"
    /\ Len(svc[c].result.error.message.items) = 2

\* C6: when the transport reports not found (HTTP 404), fetchProduct,
\* updateProduct and deleteProduct return Err NotFound with the identifier
\* of the call; every other fault gives Err NetworkError with the fault's
\* message.
C6_NotFoundCarriesId ==
  \A c \in Callers :
    (svc[c].pc = "returned" /\ svc[c].outcome.kind = "reject"
       /\ svc[c].fn \in {"fetchProduct", "updateProduct", "deleteProduct"}) =>
      IF svc[c].outcome.error.status = 404
      THEN svc[c].result = err([type |-> "NotFound", productId |-> svc[c].id])
      ELSE svc[c].result =
             err([type |-> "NetworkError", message |-> svc[c].outcome.error.message])

\* a 404 for identifier 42 gives NotFound with productId 42
C6_Witness ==
  \E c \in Callers :
    /\ svc[c].pc = "returned" /\ svc[c].id = IntV(42)
    /\ svc[c].outcome.kind = "reject" /\ svc[c].outcome.error.status = 404
    /\ svc[c].result = err([type |-> "NotFound", productId |-> IntV(42)])

(***************************************************************************)
(* C11                                                                     *)
(***************************************************************************)
\* C11: validateOrThrow returns the decoded value v exactly when validate
\* returns Ok(v), and raises an Error whose message holds every validation
\* message of validate's Err exactly when validate returns Err; it returns no
\* value for an input that fails decode.
C11_ThrowAgreesWithValidate ==
  BridgeDone("validateOrThrow") =>
    LET v == validate(SchemaOf(br.schema), br.data)
    IN /\ v.tag \in {"Ok", "Err"}
       /\ (br.out.tag = "Return") <=> (v.tag = "Ok")
       /\ (br.out.tag = "Throw") <=> (v.tag = "Err")
       /\ v.tag = "Ok" => br.out.value = v.value
       /\ v.tag = "Err" =>
            /\ br.out.thrown.k = "Error"
            /\ \A i \in 1..Len(v.error.errors) :
                 \E j \in 1..Len(br.out.thrown.message.items) :
                   br.out.thrown.message.items[j] = v.error.errors[i]
       /\ ~isRight(decode(SchemaOf(br.schema), br.data)) => br.out.tag # "Return"

\* a create payload with two violated fields: validateOrThrow raised an Error
\* whose message holds both messages
C11_Witness ==
  /\ BridgeDone("validateOrThrow")
  /\ br.schema = "ProductCreateSchema"
  /\ IsObj(br.data)
  /\ Cardinality(ViolatedFields(ProductCreateSchema, br.data)) = 2
  /\ br.out.tag = "Throw"
  /\ Len(br.out.thrown.message.items) = 2

(***************************************************************************)
(* Schema decoding: a payload of an entity is decoded against the entity's *)
(* full, list and update schemas and its enumeration field against the     *)
(* enumeration schema, each at most once and in any order.                 *)
(***************************************************************************)
EmptyObject == Obj([k \in {} |-> Absent])

BaseOrderItem ==
  Obj([id |-> IntV(1), order_id |-> IntV(1), product_id |-> IntV(1),
       quantity |-> IntV(2), unit_price |-> IntV(7500), subtotal |-> IntV(15000)])

OrderKeys ==
  {"id", "user_id", "total_amount", "status", "shipping_address", "created_at",
   "updated_at", "order_items"}

BaseOrderFields ==
  [id |-> IntV(1), user_id |-> IntV(1), total_amount |-> IntV(15000),
   status |-> StringLiteral("pending"), shipping_address |-> Str("text", 20),
   created_at |-> Str("date", 20), updated_at |-> Absent,
   order_items |-> Arr(<<BaseOrderItem>>)]

OrderStatusTags == {"pending", "confirmed", "shipped", "delivered", "cancelled"}

UserRoleTags == {"customer", "admin"}

\* values of an enumeration field: the declared tags of both enumerations,
\* tags neither declares, and values that are not strings
TagSamples ==
  {StringLiteral(tag) : tag \in OrderStatusTags \cup UserRoleTags
                                 \cup {"refunded", "PENDING", "superuser", "Admin"}}
    \cup {Str("text", 7), IntV(1), Bool(TRUE), Null, Undefined, Absent}

OrderFieldSamples(k) ==
  CASE k = "id" -> {IntV(0), IntV(42), Str("text", 1), Absent}
    [] k = "user_id" -> {IntV(-5), IntV(7), Absent}
    [] k = "total_amount" -> {IntV(-100), IntV(0), HalfV(0), NaN, Absent}
    [] k = "status" -> TagSamples
    [] k = "shipping_address" ->
         {Str("text", 9), Str("text", 10), Str("text", 500), Str("text", 501), Absent}
    [] k = "created_at" -> {Str("date", 10), Str("text", 7), Absent}
    [] k = "updated_at" -> {Str("date", 20), Str("text", 3), Null, Undefined}
    [] k = "order_items" ->
         {Arr(<<>>), Null, Absent, BaseOrderItem,
          Arr(<<BaseOrderItem, Obj([BaseOrderItem.f EXCEPT !.id = IntV(0)])>>)}

UserKeys == {"id", "email", "name", "role", "created_at", "updated_at"}

BaseUserFields ==
  [id |-> IntV(1), email |-> Str("email", 16), name |-> Str("text", 5),
   role |-> StringLiteral("customer"), created_at |-> Str("date", 20),
   updated_at |-> Absent]

UserFieldSamples(k) ==
  CASE k = "id" -> {IntV(0), IntV(42), Absent}
    [] k = "email" -> {Str("email", 7), Str("text", 5), IntV(1), Absent}
    [] k = "name" -> {Str("text", 1), Str("text", 2), Str("text", 100), Str("text", 101), Absent}
    [] k = "role" -> TagSamples
    [] k = "created_at" -> {Str("date", 10), Str("text", 7), Absent}
    [] k = "updated_at" -> {Str("date", 20), Str("text", 3), Null, Undefined}

\* the base order with at most n fields replaced by samples
OrderPayloadsVarying(n) ==
  UNION {{Obj([k \in OrderKeys |-> IF k \in S THEN g[k] ELSE BaseOrderFields[k]]) :
            g \in {h \in [S -> UNION {OrderFieldSamples(k) : k \in S}] :
                     \A k \in S : h[k] \in OrderFieldSamples(k)}} :
         S \in {T \in SUBSET OrderKeys : Cardinality(T) <= n}}

UserPayloadsVarying(n) ==
  UNION {{Obj([k \in UserKeys |-> IF k \in S THEN g[k] ELSE BaseUserFields[k]]) :
            g \in {h \in [S -> UNION {UserFieldSamples(k) : k \in S}] :
                     \A k \in S : h[k] \in UserFieldSamples(k)}} :
         S \in {T \in SUBSET UserKeys : Cardinality(T) <= n}}

OrderUpdateInputs ==
  {Obj([status |-> StringLiteral("shipped")]),
   Obj([status |-> StringLiteral("refunded")]),
   Obj([shipping_address |-> Str("text", 9)]),
   Obj([status |-> Undefined, shipping_address |-> Str("text", 30)])}

Entities == {"Product", "Order", "User"}

PayloadsOf(entity) ==
  CASE entity = "Product" -> ProductPayloads \cup UpdateInputs \cup NonObjects \cup {EmptyObject}
    [] entity = "Order" ->
         OrderPayloadsVarying(MaxVaried) \cup OrderUpdateInputs \cup NonObjects \cup {EmptyObject}
    [] entity = "User" -> UserPayloadsVarying(MaxVaried) \cup NonObjects \cup {EmptyObject}

\* the schemas the schema modules export for an entity
VariantsOf(entity) ==
  CASE entity = "Product" -> {"full", "list", "update"}
    [] entity = "Order" -> {"full", "list", "update", "enum"}
    [] entity = "User" -> {"full", "enum"}

EntitySchema(entity, variant) ==
  CASE entity = "Product" /\ variant = "full" -> ProductSchema
    [] entity = "Product" /\ variant = "list" -> ProductListSchema
    [] entity = "Product" /\ variant = "update" -> ProductUpdateSchema
    [] entity = "Order" /\ variant = "full" -> OrderSchema
    [] entity = "Order" /\ variant = "list" -> OrderListSchema
    [] entity = "Order" /\ variant = "update" -> OrderUpdateSchema
    [] entity = "Order" /\ variant = "enum" -> OrderStatusSchema
    [] entity = "User" /\ variant = "full" -> UserSchema
    [] entity = "User" /\ variant = "enum" -> UserRoleSchema

\* the enumeration field of an entity
TagField(entity) == IF entity = "Order" THEN "status" ELSE "role"

\* the value of the enumeration field of a payload
TagOf(entity, data) == IF IsObj(data) THEN Get(data, TagField(entity)) ELSE data

DecInit ==
  /\ \E e \in Entities :
       dec \in {[pc |-> "run", entity |-> e, data |-> d,
                 full |-> NoOut, list |-> NoOut, update |-> NoOut, enum |-> NoOut] :
                 d \in PayloadsOf(e)}
  /\ nom = NomIdle /\ br = BrIdle /\ svc = SvcIdle
  /\ res = ResIdle /\ boot = BootIdle /\ ui = UiIdle /\ cart = CartIdle /\ ord = OrdIdle

DecodeFull ==
  /\ dec.pc = "run" /\ "full" \in VariantsOf(dec.entity) /\ dec.full = NoOut
  /\ dec' = [dec EXCEPT !.full = decode(EntitySchema(dec.entity, "full"), dec.data)]
  /\ UNCHANGED <<nom, br, svc, res, boot, ui, cart, ord>>

DecodeList ==
  /\ dec.pc = "run" /\ "list" \in VariantsOf(dec.entity) /\ dec.list = NoOut
  /\ dec' = [dec EXCEPT !.list = decode(EntitySchema(dec.entity, "list"), dec.data)]
  /\ UNCHANGED <<nom, br, svc, res, boot, ui, cart, ord>>

DecodeUpdate ==
  /\ dec.pc = "run" /\ "update" \in VariantsOf(dec.entity) /\ dec.update = NoOut
  /\ dec' = [dec EXCEPT !.update = decode(EntitySchema(dec.entity, "update"), dec.data)]
  /\ UNCHANGED <<nom, br, svc, res, boot, ui, cart, ord>>

DecodeEnum ==
  /\ dec.pc = "run" /\ "enum" \in VariantsOf(dec.entity) /\ dec.enum = NoOut
  /\ dec' = [dec EXCEPT !.enum = decode(EntitySchema(dec.entity, "enum"),
                                         TagOf(dec.entity, dec.data))]
  /\ UNCHANGED <<nom, br, svc, res, boot, ui, cart, ord>>

DecNext == DecodeFull \/ DecodeList \/ DecodeUpdate \/ DecodeEnum

SpecSchema == DecInit /\ [][DecNext]_vars

\* a run either decodes a payload or calls service functions
SpecSchemaService ==
  (DecInit \/ SvcInit) /\ [][DecNext \/ (dec = DecIdle /\ SvcNext)]_vars

(***************************************************************************)
(* C12                                                                     *)
(***************************************************************************)
\* C12: decoding the empty object against an update schema (ProductUpdateSchema,
\* OrderUpdateSchema) yields Right, and updateProduct called with the empty
\* object passes its input validation and sends its request.
C12_EmptyUpdateAlwaysOk ==
  /\ (dec.pc = "run" /\ dec.data = EmptyObject /\ dec.update # NoOut) =>
       dec.update = Right(EmptyObject)
  /\ \A c \in Callers :
       (svc[c].fn = "updateProduct" /\ svc[c].data = EmptyObject) =>
         /\ svc[c].request # NoRequest
         /\ svc[c].request.method = "PUT" /\ svc[c].request.body = EmptyObject
         /\ svc[c].pc = "returned" => svc[c].outcome # NoOutcome

\* the empty object has been decoded against OrderUpdateSchema, with success
C12_Witness ==
  /\ dec.pc = "run" /\ dec.entity = "Order" /\ dec.data = EmptyObject
  /\ dec.update.tag = "Right"

(***************************************************************************)
(* Result core: a caller applies map or andThen to a Result.               *)
(***************************************************************************)
OkValues ==
  {BaseProduct,
   Obj([BaseFields EXCEPT !.stock_quantity = IntV(0)]),
   Obj([BaseFields EXCEPT !.price = IntV(0)]),
   Obj([BaseFields EXCEPT !.price = HalfV(7), !.id = IntV(42)])}

ErrValues ==
  {[type |-> "NotFound", productId |-> IntV(42)],
   [type |-> "NotFound", productId |-> IntV(1)],
   [type |-> "NetworkError", message |-> Text("Network Error")],
   [type |-> "OutOfStock", productId |-> IntV(1), requested |-> 20],
   [type |-> "InvalidPrice", price |-> IntV(-100)],
   [type |-> "ValidationError", errors |-> <<>>]}

Results == {ok(v) : v \in OkValues} \cup {err(e) : e \in ErrValues}

RequestedQuantities == {1, 20}

ResInit ==
  /\ res \in {[pc |-> "start", op |-> "map", result |-> r, f |-> f,
                out |-> NoOut, applied |-> <<>>] :
                r \in Results,
                f \in {withDiscount(d) : d \in DiscountPercents}
                        \cup {requireStock(q) : q \in RequestedQuantities}}
             \cup {[pc |-> "start", op |-> "andThen", result |-> r, f |-> f,
                     out |-> NoOut, applied |-> <<>>] :
                     r \in Results, f \in {requireStock(q) : q \in RequestedQuantities}}
  /\ nom = NomIdle /\ br = BrIdle /\ svc = SvcIdle
  /\ dec = DecIdle /\ boot = BootIdle /\ ui = UiIdle /\ cart = CartIdle /\ ord = OrdIdle

ResMap ==
  /\ res.pc = "start" /\ res.op = "map"
  /\ LET r == map(res.result, res.f)
     IN res' = [res EXCEPT !.pc = "done", !.out = r.result, !.applied = r.applied]
  /\ UNCHANGED <<nom, br, svc, dec, boot, ui, cart, ord>>

ResAndThen ==
  /\ res.pc = "start" /\ res.op = "andThen"
  /\ LET r == andThen(res.result, res.f)
     IN res' = [res EXCEPT !.pc = "done", !.out = r.result, !.applied = r.applied]
  /\ UNCHANGED <<nom, br, svc, dec, boot, ui, cart, ord>>

ResNext == ResMap \/ ResAndThen

\* a run either applies map or andThen to a Result or calls service functions
SpecResultService ==
  (ResInit \/ SvcInit) /\ [][ResNext \/ (res = ResIdle /\ SvcNext)]_vars

(***************************************************************************)
(* C13                                                                     *)
(***************************************************************************)
\* C13: map and andThen applied to an Err never invoke the supplied function
\* and yield a Result holding the original error; fetchProductWithDiscount
\* returns the error of fetchProduct, with no discounted price computed,
\* whenever fetchProduct returns Err.
C13_ErrPassesThrough ==
  /\ (res.pc = "done" /\ res.result.tag = "Err") =>
       /\ res.applied = <<>>
       /\ res.out.tag = "Err"
       /\ res.out.error = res.result.error
       /\ DOMAIN res.out = {"tag", "error"}
  /\ \A c \in Callers :
       (svc[c].pc = "returned" /\ svc[c].fn = "fetchProductWithDiscount") =>
         LET fetched == fetchProductResume(svc[c].id, svc[c].outcome)
         IN fetched.tag = "Err" =>
              /\ svc[c].applied = <<>>
              /\ svc[c].result = err(fetched.error)

\* fetchProductWithDiscount(42, d) met a 404: it returned NotFound for 42 and
\* the discount was never computed
C13_Witness ==
  \E c \in Callers :
    /\ svc[c].pc = "returned" /\ svc[c].fn = "fetchProductWithDiscount"
    /\ svc[c].id = IntV(42)
    /\ svc[c].outcome.kind = "reject" /\ svc[c].outcome.error.status = 404
    /\ svc[c].result = err([type |-> "NotFound", productId |-> IntV(42)])
    /\ svc[c].applied = <<>>

(***************************************************************************)
(* Startup: the environment module validates process.env when it is first  *)
(* imported; the product service module reads process.env when it is first *)
(* imported; service functions are callable once their module is loaded.   *)
(***************************************************************************)
\* x || fallback, for x a string or undefined
OrElse(x, fallback) ==
  IF x = Undefined \/ (x.t = "string" /\ x.v = 0) THEN fallback ELSE x

EnvSchema ==
  Type("Env",
       <<Prop("NODE_ENV",
              Union("NodeEnv", <<Literal("development"), Literal("production"),
                                 Literal("test")>>)),
         Prop("NEXT_PUBLIC_API_URL", Leaf("URL")),
         Prop("NEXT_PUBLIC_APP_URL", Leaf("URL")),
         Prop("DATABASE_URL", Union("(URL | undefined)", <<Leaf("URL"), Leaf("undefined")>>))>>)

\* what validateEnv writes with console.error
EnvConsole(errors) == <<Text("env validation failed")>> \o errors

\* mutant: NODE_ENV is passed to the schema as it is, without a default
validateEnvNoDefault(processEnv) ==
  LET envData == Obj([NODE_ENV |-> processEnv.NODE_ENV,
                      NEXT_PUBLIC_API_URL |-> processEnv.NEXT_PUBLIC_API_URL,
                      NEXT_PUBLIC_APP_URL |-> processEnv.NEXT_PUBLIC_APP_URL,
                      DATABASE_URL |-> processEnv.DATABASE_URL])
      result == decode(EnvSchema, envData)
  IN IF isRight(result) THEN [out |-> Return(result.right), console |-> <<>>]
     ELSE [out |-> ThrowError(Text("Invalid environment variables")),
           console |-> EnvConsole(PathReporter_report(result))]

\* validateEnv(): what it returns or throws, and what it writes to the console
validateEnv(processEnv) ==
  LET envData == Obj([NODE_ENV |-> OrElse(processEnv.NODE_ENV, StringLiteral("development")),
                      NEXT_PUBLIC_API_URL |-> processEnv.NEXT_PUBLIC_API_URL,
                      NEXT_PUBLIC_APP_URL |-> processEnv.NEXT_PUBLIC_APP_URL,
                      DATABASE_URL |-> processEnv.DATABASE_URL])
      result == decode(EnvSchema, envData)
  IN IF isRight(result) THEN [out |-> Return(result.right), console |-> <<>>]
     ELSE [out |-> ThrowError(Text("Invalid environment variables")),
           console |-> EnvConsole(PathReporter_report(result))]

\* 'http://localhost:8000/api'
DefaultApiBaseUrl == Str("url", 25)

\* the modules the product service module imports
ProductServiceImports ==
  {"axios", "@/types/result", "@/types/product", "@/types/branded", "@/types/errors",
   "@/schemas/product.schema", "@/utils/validation"}

EnvModule == "@/config/env"

\* process.env: a variable is a string, or undefined when it is not set
UrlValues == {Undefined, Str("text", 0), Str("text", 5), Str("url", 24)}

NodeEnvValues ==
  {Undefined, Str("text", 0)}
    \cup {StringLiteral(e) : e \in {"development", "production", "test", "staging"}}

ProcessEnvs ==
  [NODE_ENV : NodeEnvValues, NEXT_PUBLIC_API_URL : UrlValues,
   NEXT_PUBLIC_APP_URL : UrlValues, DATABASE_URL : UrlValues]

\* the largest number of requests of one run
MaxRequests == 2

BootInit ==
  /\ boot \in {[pc |-> "run", processEnv |-> pe, envModule |-> "unloaded", env |-> NoOut,
                 console |-> <<>>, serviceModule |-> "unloaded",
                 API_BASE_URL |-> Undefined, requests |-> <<>>,
                 inDev |-> NoOut] : pe \in ProcessEnvs}
  /\ nom = NomIdle /\ br = BrIdle /\ svc = SvcIdle
  /\ dec = DecIdle /\ res = ResIdle /\ ui = UiIdle /\ cart = CartIdle /\ ord = OrdIdle

\* first import of the environment module: export const env = validateEnv();
\* an exception ends the startup
ImportEnv ==
  /\ boot.pc = "run" /\ boot.envModule = "unloaded"
  /\ LET r == validateEnv(boot.processEnv)
     IN boot' = IF r.out.tag = "Return"
                THEN [boot EXCEPT !.envModule = "loaded", !.env = r.out.value]
                ELSE [boot EXCEPT !.pc = "aborted", !.envModule = "failed",
                                  !.env = r.out, !.console = r.console]
  /\ UNCHANGED <<nom, br, svc, dec, res, ui, cart, ord>>

\* first import of the product service module, after the modules it imports
ImportProductService ==
  /\ boot.pc = "run" /\ boot.serviceModule = "unloaded"
  /\ EnvModule \in ProductServiceImports => boot.envModule = "loaded"
  /\ boot' = [boot EXCEPT !.serviceModule = "loaded",
                           !.API_BASE_URL = OrElse(boot.processEnv.NEXT_PUBLIC_API_URL,
                                                   DefaultApiBaseUrl)]
  /\ UNCHANGED <<nom, br, svc, dec, res, ui, cart, ord>>

\* a call of fetchProduct up to its await: the request is handed to the transport
BootFetchProduct ==
  /\ boot.pc = "run" /\ boot.serviceModule = "loaded"
  /\ Len(boot.requests) < MaxRequests
  /\ \E id \in ProductIds :
       boot' = [boot EXCEPT !.requests =
                  Append(@, [fn |-> "fetchProduct", base |-> boot.API_BASE_URL,
                             request |-> fetchProductBegin(id).request])]
  /\ UNCHANGED <<nom, br, svc, dec, res, ui, cart, ord>>

\* a call of createProduct up to its await
BootCreateProduct ==
  /\ boot.pc = "run" /\ boot.serviceModule = "loaded"
  /\ Len(boot.requests) < MaxRequests
  /\ LET begun == createProductBegin(Obj(CreateFields))
     IN boot' = [boot EXCEPT !.requests =
                   Append(@, [fn |-> "createProduct", base |-> boot.API_BASE_URL,
                              request |-> begun.request])]
  /\ UNCHANGED <<nom, br, svc, dec, res, ui, cart, ord>>

\* the text of a variable of process.env as validateInDev compares it
EnvText(x) ==
  IF x = Undefined THEN "<unset>" ELSE IF x.v = 0 THEN "" ELSE x.k

\* the payloads handed to validateInDev: a product, and one failing the schema
InDevPayloads == {BaseProduct, Obj([BaseFields EXCEPT !.price = IntV(-100)])}

\* a call of validateInDev once the configuration has been validated: it
\* reads process.env.NODE_ENV itself
BootValidateInDev ==
  /\ boot.pc = "run" /\ boot.envModule = "loaded" /\ boot.inDev = NoOut
  /\ \E data \in InDevPayloads :
       boot' = [boot EXCEPT !.inDev =
                  [tag |-> "called", data |-> data,
                   out |-> validateInDev(ProductSchema, data,
                                         EnvText(boot.processEnv.NODE_ENV))]]
  /\ UNCHANGED <<nom, br, svc, dec, res, ui, cart, ord>>

BootNext ==
  \/ ImportEnv
  \/ ImportProductService
  \/ BootFetchProduct
  \/ BootCreateProduct
  \/ BootValidateInDev

SpecStartup == BootInit /\ [][BootNext]_vars

(***************************************************************************)
(* C14, C15                                                                *)
(***************************************************************************)
IsAbsoluteUrl(x) == x.t = "string" /\ x.k = "url"

NodeEnvNames == {StringLiteral(e) : e \in {"development", "production", "test"}}

\* the environment is well formed, an empty NODE_ENV counting as not set
EnvWellFormed(pe) ==
  /\ IsAbsoluteUrl(pe.NEXT_PUBLIC_API_URL)
  /\ IsAbsoluteUrl(pe.NEXT_PUBLIC_APP_URL)
  /\ pe.NODE_ENV \in NodeEnvNames \cup {Undefined, Str("text", 0)}
  /\ pe.DATABASE_URL = Undefined \/ IsAbsoluteUrl(pe.DATABASE_URL)

\* the environment is well formed, NODE_ENV being either not set or one of
\* development, production, test
EnvWellFormedAsStated(pe) ==
  /\ IsAbsoluteUrl(pe.NEXT_PUBLIC_API_URL)
  /\ IsAbsoluteUrl(pe.NEXT_PUBLIC_APP_URL)
  /\ pe.NODE_ENV \in NodeEnvNames \cup {Undefined}
  /\ pe.DATABASE_URL = Undefined \/ IsAbsoluteUrl(pe.DATABASE_URL)

\* C14: in every run in which the environment configuration is malformed no
\* configuration is ever returned and no service function hands a request to
\* the transport.
C14_NoServiceOnMalformedEnv ==
  (boot.pc # "idle" /\ ~EnvWellFormed(boot.processEnv)) =>
    /\ boot.envModule # "loaded"
    /\ boot.requests = <<>>

\* C15 as stated: validateEnv raises exactly when NEXT_PUBLIC_API_URL or
\* NEXT_PUBLIC_APP_URL is missing or no absolute URL, NODE_ENV is set to a value
\* other than development, production, test, or DATABASE_URL is present and
\* no URL.
C15_RaisesOnAnyOtherNodeEnv ==
  (boot.pc # "idle" /\ boot.envModule # "unloaded") =>
    ((boot.envModule = "failed") <=> ~EnvWellFormedAsStated(boot.processEnv))

\* C15 as amended: validateEnv raises exactly when NEXT_PUBLIC_API_URL or
\* NEXT_PUBLIC_APP_URL is missing or no absolute URL, NODE_ENV is set to a
\* non-empty value other than development, production, test, or DATABASE_URL
\* is present and no URL; otherwise it returns the configuration, in which
\* NODE_ENV is development when the variable is not set or empty.
C15_RaisesOnMalformedEnv ==
  (boot.pc # "idle" /\ boot.envModule # "unloaded") =>
    LET pe == boot.processEnv
    IN /\ (boot.envModule = "failed") <=> ~EnvWellFormed(pe)
       /\ boot.envModule = "failed" =>
            boot.pc = "aborted" /\ boot.env.tag = "Throw"
       /\ boot.envModule = "loaded" =>
            /\ Get(boot.env, "NODE_ENV") =
                 (IF pe.NODE_ENV \in NodeEnvNames THEN pe.NODE_ENV
                  ELSE StringLiteral("development"))
            /\ Get(boot.env, "NEXT_PUBLIC_API_URL") = pe.NEXT_PUBLIC_API_URL
            /\ Get(boot.env, "NEXT_PUBLIC_APP_URL") = pe.NEXT_PUBLIC_APP_URL
            /\ Get(boot.env, "DATABASE_URL") = pe.DATABASE_URL

\* with DATABASE_URL not set and the other variables valid the configuration
\* is returned
C15_Witness ==
  /\ boot.pc = "run" /\ boot.envModule = "loaded"
  /\ boot.processEnv.DATABASE_URL = Undefined
  /\ boot.processEnv.NODE_ENV = StringLiteral("production")
  /\ Get(boot.env, "NODE_ENV") = StringLiteral("production")

(***************************************************************************)
(* C16, C17                                                                *)
(***************************************************************************)
DeclaredTags(entity) == IF entity = "Order" THEN OrderStatusTags ELSE UserRoleTags

\* x is the string of one of the tags
IsTagIn(x, tags) == x.t = "string" /\ x.k \in tags

\* C16: OrderStatusSchema decodes successfully exactly for pending, confirmed,
\* shipped, delivered, cancelled and UserRoleSchema exactly for customer,
\* admin; an Order or User whose tag is any other value fails to decode.
C16_EnumerationsAreClosed ==
  dec.pc = "run" =>
    LET tag == TagOf(dec.entity, dec.data)
        declared == IsTagIn(tag, DeclaredTags(dec.entity))
    IN /\ dec.enum # NoOut =>
            /\ (dec.enum.tag = "Right") <=> declared
            /\ dec.enum.tag = "Right" => dec.enum.right = tag
       /\ (dec.entity \in {"Order", "User"} /\ dec.full # NoOut /\ ~declared) =>
            dec.full.tag = "Left"

\* an order that is valid but for the status refunded: neither the status nor
\* the order decodes
C16_Witness ==
  /\ dec.pc = "run" /\ dec.entity = "Order"
  /\ dec.data = Obj([BaseOrderFields EXCEPT !.status = StringLiteral("refunded")])
  /\ dec.enum.tag = "Left"
  /\ dec.full.tag = "Left"
  /\ \A i \in 1..Len(dec.full.left) : dec.full.left[i].path[1] = "status"

\* C17: a payload that decodes successfully against ProductSchema decodes
\* successfully against ProductListSchema, and one that decodes against
\* OrderSchema decodes against OrderListSchema.
C17_FullImpliesList ==
  (dec.pc = "run" /\ dec.full # NoOut /\ dec.list # NoOut) =>
    (dec.full.tag = "Right" => dec.list.tag = "Right")

\* a product with an image URL and without a description decoded against both
C17_Witness ==
  /\ dec.pc = "run" /\ dec.entity = "Product"
  /\ IsObj(dec.data)
  /\ Get(dec.data, "image_url") = Str("url", 24)
  /\ Get(dec.data, "description") = Undefined
  /\ dec.full.tag = "Right"
  /\ dec.list.tag = "Right"

(***************************************************************************)
(* C18                                                                     *)
(***************************************************************************)
\* calls c and d of fetchProduct overlap: one was made while the request of
\* the other was in flight
Overlap(c, d) ==
  /\ c # d
  /\ svc[c].fn = "fetchProduct" /\ svc[d].fn = "fetchProduct"
  /\ c \in svc[d].during \/ d \in svc[c].during

\* the Result a fetchProduct call has from its identifier and its response
OwnResult(id, outcome) ==
  IF outcome.kind = "reject"
  THEN IF outcome.error.status = 404
       THEN err([type |-> "NotFound", productId |-> id])
       ELSE err([type |-> "NetworkError", message |-> outcome.error.message])
  ELSE LET own == validate(ProductSchema, outcome.data)
       IN IF own.tag = "Ok" THEN ok(own.value)
          ELSE err([type |-> "NetworkError",
                    message |-> Joined("Invalid product data: ", own.error.errors, ", ")])

\* C18: two overlapping calls fetchProduct(a) and fetchProduct(b) with a # b
\* do not interfere: in every interleaving and order of arrival each call
\* returns the Result determined by its own identifier and its own response,
\* the productId of a NotFound included.
C18_OverlappingFetchesIndependent ==
  \A c, d \in Callers :
    (Overlap(c, d) /\ svc[c].id # svc[d].id) =>
      /\ svc[c].pc = "returned" => svc[c].result = OwnResult(svc[c].id, svc[c].outcome)
      /\ svc[c].pc = "awaiting" => svc[c].result = NoOut
      /\ svc[c].request.id = svc[c].id

\* the call made first is answered 404 while the request of the call made
\* second is still in flight, and returns NotFound with its own identifier
C18_Witness ==
  \E c, d \in Callers :
    /\ Overlap(c, d) /\ c \in svc[d].during
    /\ svc[c].id = IntV(42) /\ svc[d].id = IntV(1)
    /\ svc[d].pc = "awaiting"
    /\ svc[c].pc = "returned"
    /\ svc[c].outcome.kind = "reject" /\ svc[c].outcome.error.status = 404
    /\ svc[c].result = err([type |-> "NotFound", productId |-> IntV(42)])

\* the call made second is answered first
C18_WitnessReversed ==
  \E c, d \in Callers :
    /\ Overlap(c, d) /\ c \in svc[d].during
    /\ svc[c].id # svc[d].id
    /\ svc[c].pc = "awaiting"
    /\ svc[d].pc = "returned" /\ svc[d].result.tag = "Ok"

(***************************************************************************)
(* ProductDetail: the component keeps result and isLoading; each run of    *)
(* its effect has a flag isMounted of its own, requests the product and,   *)
(* when the request has settled, stores the Result if the flag still       *)
(* holds.  The cleanup of a run clears its flag; it runs before the next   *)
(* run of the effect and when the component is unmounted.                  *)
(***************************************************************************)
MaxEffects == 3

\* the responses of the transport to the requests of the component
UiOutcomes ==
  {Resolve(BaseProduct),
   Resolve(Obj([BaseFields EXCEPT !.price = IntV(-100)])),
   Reject(AxiosError(404, "Request failed with status code 404")),
   Reject(AxiosError(0, "Network Error"))}

\* one run of the effect, up to the await of loadProduct
Effect(productId) ==
  [id |-> productId, isMounted |-> TRUE, pc |-> "awaiting",
   request |-> fetchProductBegin(productId).request,
   outcome |-> NoOutcome, productResult |-> NoOut, stale |-> FALSE, order |-> 0]

\* mutant: the cleanup leaves the flag of its run as it is
CleanupKeepsFlag(effect) == effect

\* the cleanup returned by the effect
Cleanup(effect) == [effect EXCEPT !.isMounted = FALSE]

\* the cleanup of the latest run, if there is one
CleanupLatest(effects) ==
  IF effects = <<>> THEN effects
  ELSE [effects EXCEPT ![Len(effects)] = Cleanup(@)]

\* mutant: the Result is stored whether or not the run has been cleaned up
loadProductResumeUnguarded(state, effect, productResult) ==
  [state EXCEPT !.result = productResult, !.isLoading = FALSE]

\* loadProduct from its await: the state of the component afterwards
loadProductResume(state, effect, productResult) ==
  IF effect.isMounted
  THEN [state EXCEPT !.result = productResult, !.isLoading = FALSE]
  ELSE state

UiInit ==
  /\ \E productId \in ProductIds :
       ui = [pc |-> "run", mounted |-> TRUE, productId |-> productId, pending |-> TRUE,
             result |-> Null, isLoading |-> TRUE, effects |-> <<>>, settled |-> 0]
  /\ nom = NomIdle /\ br = BrIdle /\ svc = SvcIdle
  /\ dec = DecIdle /\ res = ResIdle /\ boot = BootIdle /\ cart = CartIdle /\ ord = OrdIdle

\* the parent renders the component with another productId; the effects of
\* the render before have run by then
UiRender ==
  /\ ui.pc = "run" /\ ui.mounted /\ ~ui.pending
  /\ Len(ui.effects) < MaxEffects
  /\ \E productId \in ProductIds \ {ui.productId} :
       ui' = [ui EXCEPT !.productId = productId, !.pending = TRUE]
  /\ UNCHANGED <<nom, br, svc, dec, res, boot, cart, ord>>

\* the effect runs after a render in which productId has changed: the cleanup
\* of the previous run, then setIsLoading(true) and the request
UiEffect ==
  /\ ui.pc = "run" /\ ui.mounted /\ ui.pending
  /\ ui' = [ui EXCEPT !.pending = FALSE, !.isLoading = TRUE,
                       !.effects = Append(CleanupLatest(ui.effects), Effect(ui.productId))]
  /\ UNCHANGED <<nom, br, svc, dec, res, boot, cart, ord>>

\* the request of run i settles and loadProduct runs to its end
UiSettle(i) ==
  /\ ui.pc = "run" /\ i \in 1..Len(ui.effects)
  /\ ui.effects[i].pc = "awaiting"
  /\ \E outcome \in UiOutcomes :
       LET effect == ui.effects[i]
           productResult == fetchProductResume(effect.id, outcome)
           after == loadProductResume([result |-> ui.result, isLoading |-> ui.isLoading],
                                      effect, productResult)
       IN ui' = [ui EXCEPT !.result = after.result, !.isLoading = after.isLoading,
                           !.settled = @ + 1,
                           !.effects[i] = [effect EXCEPT !.pc = "done",
                                                         !.outcome = outcome,
                                                         !.productResult = productResult,
                                                         !.stale = ~effect.isMounted,
                                                         !.order = ui.settled + 1]]
  /\ UNCHANGED <<nom, br, svc, dec, res, boot, cart, ord>>

\* the component is removed: the cleanup of the latest run
UiUnmount ==
  /\ ui.pc = "run" /\ ui.mounted
  /\ ui' = [ui EXCEPT !.mounted = FALSE, !.pending = FALSE,
                       !.effects = CleanupLatest(ui.effects)]
  /\ UNCHANGED <<nom, br, svc, dec, res, boot, cart, ord>>

UiNext ==
  \/ UiRender
  \/ UiEffect
  \/ \E i \in 1..MaxEffects : UiSettle(i)
  \/ UiUnmount

SpecProductDetail == UiInit /\ [][UiNext]_vars

(***************************************************************************)
(* C19                                                                     *)
(***************************************************************************)
\* the runs of the effect whose request has settled
Done == {k \in 1..Len(ui.effects) : ui.effects[k].pc = "done"}

\* the runs whose request settled before their cleanup
Live == {k \in Done : ~ui.effects[k].stale}

\* C19 as stated: when two requests of ProductDetail for the same entity race,
\* after both have resolved the result held is the Result of the response that
\* resolved later, whichever request was issued first.
C19_LaterResolvingOverwrites ==
  ui.pc = "run" =>
    \A i, j \in Done :
      (/\ i # j /\ ui.effects[i].id = ui.effects[j].id
       /\ \A k \in Done \ {j} : ui.effects[k].order < ui.effects[j].order) =>
        ui.result = ui.effects[j].productResult

\* C19: when two requests of ProductDetail for the same entity race, a
\* response that resolves after the cleanup of its run is discarded: the
\* result held is the Result of the request issued last among those that
\* resolved before the cleanup of their run (null if there is none),
\* whichever response resolved later.
C19_StaleResponseDiscarded ==
  ui.pc = "run" =>
    /\ ui.result = IF Live = {} THEN Null
                   ELSE ui.effects[CHOOSE k \in Live : \A l \in Live : l <= k].productResult
    /\ \A i, j \in Done :
         (/\ i < j /\ ui.effects[i].id = ui.effects[j].id
          /\ j = Len(ui.effects) /\ ~ui.effects[j].stale) =>
           ui.result = ui.effects[j].productResult

\* two requests for product 42: the second is answered with the product, then
\* the first is answered 404; the result held is the product
C19_Witness ==
  /\ ui.pc = "run" /\ Len(ui.effects) = 3
  /\ ui.effects[1].id = IntV(42) /\ ui.effects[3].id = IntV(42)
  /\ ui.effects[1].pc = "done" /\ ui.effects[3].pc = "done"
  /\ ui.effects[3].order < ui.effects[1].order
  /\ ui.effects[1].productResult = err([type |-> "NotFound", productId |-> IntV(42)])
  /\ ui.effects[3].productResult.tag = "Ok"
  /\ ui.result = ui.effects[3].productResult
  /\ ui.isLoading = FALSE

(***************************************************************************)
(* CartService.addToCart: the call runs to the await of the repository and *)
(* from there to its return.  cart is the object passed in; the call       *)
(* record keeps it as it was passed (before) and as it is now (cart).      *)
(***************************************************************************)
MaxStock == 3

CartProductIds == {1, 2}

Stocks == 0..MaxStock

\* quantities a caller passes
CartQuantities == -1..(MaxStock + 1)

\* the product the repository finds for productId
CartProduct(productId, stock) ==
  [id |-> productId, name |-> IF productId = 1 THEN "Test Product" ELSE "Other Product",
   price |-> 1000 * productId, stock_quantity |-> stock,
   image_url |-> IF productId = 1 THEN Undefined ELSE Str("url", 24)]

CartItemOf(product, quantity) ==
  [product_id |-> product.id, product_name |-> product.name, price |-> product.price,
   quantity |-> quantity, image_url |-> product.image_url]

\* the outcomes of productRepository.findById
FindByIdOutcomes(productId) ==
  {ok(CartProduct(productId, stock)) : stock \in Stocks}
    \cup {err([type |-> "NotFound", productId |-> productId])}

\* items.find(pred): the first item of that product, or undefined
FindItem(items, productId) ==
  LET found == {i \in 1..Len(items) : items[i].product_id = productId}
  IN IF found = {} THEN Undefined
     ELSE items[CHOOSE i \in found : \A j \in found : i <= j]

\* a call of addToCart up to its first return or await
addToCartBegin(inputCart, productId, quantity) ==
  IF quantity <= 0
  THEN [pc |-> "returned", result |-> err([type |-> "InvalidQuantity", quantity |-> quantity])]
  ELSE [pc |-> "awaiting", result |-> NoOut]

\* mutant: a total equal to the stock is refused
addToCartResumeAtLeast(inputCart, productId, quantity, productResult) ==
  IF productResult.tag # "Ok"
  THEN [result |-> err([type |-> "ProductNotFound", productId |-> productId]), cart |-> inputCart]
  ELSE
    LET product == productResult.value
        existingItem == FindItem(inputCart.items, productId)
        totalQuantity == (IF existingItem = Undefined \/ existingItem.quantity = 0 THEN 0
                          ELSE existingItem.quantity) + quantity
        newItems == IF existingItem # Undefined
                    THEN [i \in 1..Len(inputCart.items) |->
                            IF inputCart.items[i].product_id = productId
                            THEN [inputCart.items[i] EXCEPT !.quantity = @ + quantity]
                            ELSE inputCart.items[i]]
                    ELSE Append(inputCart.items, CartItemOf(product, quantity))
    IN IF totalQuantity >= product.stock_quantity
       THEN [result |-> err([type |-> "OutOfStock", productId |-> productId,
                             available |-> product.stock_quantity]),
             cart |-> inputCart]
       ELSE [result |-> ok([inputCart EXCEPT !.items = newItems]), cart |-> inputCart]

\* addToCart from the await of findById: its Result and the object passed in
addToCartResume(inputCart, productId, quantity, productResult) ==
  IF productResult.tag # "Ok"
  THEN [result |-> err([type |-> "ProductNotFound", productId |-> productId]), cart |-> inputCart]
  ELSE
    LET product == productResult.value
        existingItem == FindItem(inputCart.items, productId)
        totalQuantity == (IF existingItem = Undefined \/ existingItem.quantity = 0 THEN 0
                          ELSE existingItem.quantity) + quantity
        newItems == IF existingItem # Undefined
                    THEN [i \in 1..Len(inputCart.items) |->
                            IF inputCart.items[i].product_id = productId
                            THEN [inputCart.items[i] EXCEPT !.quantity = @ + quantity]
                            ELSE inputCart.items[i]]
                    ELSE Append(inputCart.items, CartItemOf(product, quantity))
    IN IF totalQuantity > product.stock_quantity
       THEN [result |-> err([type |-> "OutOfStock", productId |-> productId,
                             available |-> product.stock_quantity]),
             cart |-> inputCart]
       ELSE [result |-> ok([inputCart EXCEPT !.items = newItems]), cart |-> inputCart]

RECURSIVE CartItemsOver(_)
\* the carts the service builds from the empty cart: at most one item for a
\* product, each with a quantity from 1 to the largest stock
CartItemsOver(ids) ==
  IF ids = <<>> THEN {<<>>}
  ELSE {<<CartItemOf(CartProduct(ids[1], 0), q)>> \o rest :
          q \in 1..MaxStock, rest \in CartItemsOver(Tail(ids))}

Carts ==
  {[items |-> items] :
     items \in CartItemsOver(<<>>) \cup CartItemsOver(<<1>>) \cup CartItemsOver(<<2>>)
                 \cup CartItemsOver(<<1, 2>>) \cup CartItemsOver(<<2, 1>>)}

CartInit ==
  /\ \E c \in Carts :
       cart = [pc |-> "ready", before |-> c, cart |-> c, productId |-> 0, quantity |-> 0,
               productResult |-> NoOut, result |-> NoOut]
  /\ nom = NomIdle /\ br = BrIdle /\ svc = SvcIdle
  /\ dec = DecIdle /\ res = ResIdle /\ boot = BootIdle /\ ui = UiIdle /\ ord = OrdIdle

CallAddToCart ==
  /\ cart.pc = "ready"
  /\ \E productId \in CartProductIds, quantity \in CartQuantities :
       LET begun == addToCartBegin(cart.cart, productId, quantity)
       IN cart' = [cart EXCEPT !.pc = begun.pc, !.productId = productId,
                               !.quantity = quantity, !.result = begun.result]
  /\ UNCHANGED <<nom, br, svc, dec, res, boot, ui, ord>>

FindByIdSettles ==
  /\ cart.pc = "awaiting"
  /\ \E productResult \in FindByIdOutcomes(cart.productId) :
       LET after == addToCartResume(cart.cart, cart.productId, cart.quantity, productResult)
       IN cart' = [cart EXCEPT !.pc = "returned", !.productResult = productResult,
                               !.result = after.result, !.cart = after.cart]
  /\ UNCHANGED <<nom, br, svc, dec, res, boot, ui, ord>>

CartNext == CallAddToCart \/ FindByIdSettles

SpecCart == CartInit /\ [][CartNext]_vars

(***************************************************************************)
(* C20                                                                     *)
(***************************************************************************)
\* the positions of the items of a product
ItemsOf(items, productId) == {i \in 1..Len(items) : items[i].product_id = productId}

RECURSIVE SumQuantity(_, _)
\* the quantity of a product over a set of positions
SumQuantity(items, positions) ==
  IF positions = {} THEN 0
  ELSE LET i == CHOOSE i \in positions : TRUE
       IN items[i].quantity + SumQuantity(items, positions \ {i})

\* C20: addToCart with quantity > 0 and a product found returns Err OutOfStock
\* with available = stock_quantity exactly when the quantity in the cart for
\* the product plus the requested one exceeds stock_quantity; otherwise Ok
\* with a cart where the product has the previous quantity plus the requested
\* one (one new item when it was absent) and every other item is unchanged;
\* the cart passed in is not mutated.
C20_AddToCart ==
  (cart.pc = "returned" /\ cart.quantity > 0 /\ cart.productResult.tag = "Ok") =>
    LET old == cart.before.items
        product == cart.productResult.value
        was == ItemsOf(old, cart.productId)
        previous == SumQuantity(old, was)
    IN /\ cart.cart = cart.before
       /\ IF previous + cart.quantity > product.stock_quantity
          THEN cart.result = err([type |-> "OutOfStock", productId |-> cart.productId,
                                  available |-> product.stock_quantity])
          ELSE /\ cart.result.tag = "Ok"
               /\ LET new == cart.result.value.items
                       now == ItemsOf(new, cart.productId)
                  IN /\ SumQuantity(new, now) = previous + cart.quantity
                     /\ Cardinality(now) = 1
                     /\ Len(new) = Len(old) + (IF was = {} THEN 1 ELSE 0)
                     /\ \A i \in 1..Len(old) :
                          IF i \in was
                          THEN new[i] = [old[i] EXCEPT !.quantity = previous + cart.quantity]
                          ELSE new[i] = old[i]
                     /\ was = {} => new[Len(new)] = CartItemOf(product, cart.quantity)

\* one more of product 1 is added to a cart holding two of it and one of
\* product 2 when the stock is three: the item of product 1 has quantity three
C20_Witness ==
  /\ cart.pc = "returned" /\ cart.productId = 1 /\ cart.quantity = 1
  /\ Len(cart.before.items) = 2
  /\ cart.before.items[1].product_id = 1 /\ cart.before.items[1].quantity = 2
  /\ cart.productResult.tag = "Ok" /\ cart.productResult.value.stock_quantity = 3
  /\ cart.result.tag = "Ok"
  /\ cart.result.value.items[1].quantity = 3
  /\ cart.result.value.items[2] = cart.before.items[2]

\* two of product 1 are asked for when one is in the cart and the stock is two
C20_WitnessOutOfStock ==
  /\ cart.pc = "returned" /\ cart.productId = 1 /\ cart.quantity = 2
  /\ ItemsOf(cart.before.items, 1) # {} /\ SumQuantity(cart.before.items, ItemsOf(cart.before.items, 1)) = 1
  /\ cart.productResult.tag = "Ok" /\ cart.productResult.value.stock_quantity = 2
  /\ cart.result = err([type |-> "OutOfStock", productId |-> 1, available |-> 2])

(***************************************************************************)
(* C21                                                                     *)
(***************************************************************************)
OptionalProductFields == {"description", "image_url", "updated_at"}

\* the errors of a Left that are about field f
ErrorsAbout(left, f) == {i \in 1..Len(left) : left[i].path # <<>> /\ left[i].path[1] = f}

\* C21: a product payload whose description, image_url or updated_at is null
\* fails to decode, with an error about that field; an optional field that is
\* absent or undefined gives no error, and the base payload with that field
\* absent or undefined decodes.
C21_OptionalNeverNullable ==
  (dec.pc = "run" /\ dec.entity = "Product" /\ IsObj(dec.data) /\ dec.full # NoOut) =>
    \A f \in OptionalProductFields :
      /\ Get(dec.data, f) = Null =>
           dec.full.tag = "Left" /\ ErrorsAbout(dec.full.left, f) # {}
      /\ (Get(dec.data, f) = Undefined /\ dec.full.tag = "Left") =>
           ErrorsAbout(dec.full.left, f) = {}
      /\ dec.data \in {Obj([BaseFields EXCEPT ![f] = x]) : x \in {Absent, Undefined}} =>
           dec.full.tag = "Right"

\* the base product with updated_at null: the only errors are about updated_at
C21_Witness ==
  /\ dec.pc = "run" /\ dec.entity = "Product"
  /\ dec.data = Obj([BaseFields EXCEPT !.updated_at = Null])
  /\ dec.full.tag = "Left"
  /\ ErrorsAbout(dec.full.left, "updated_at") = 1..Len(dec.full.left)

\* the base product with image_url: undefined decodes
C21_WitnessUndefined ==
  /\ dec.pc = "run" /\ dec.entity = "Product"
  /\ dec.data = Obj([BaseFields EXCEPT !.image_url = Undefined])
  /\ dec.full.tag = "Right"

(***************************************************************************)
(* C22                                                                     *)
(***************************************************************************)
\* the caller's payload has a price that is a negative number
HasNegativePrice(data) ==
  /\ IsObj(data)
  /\ LET price == Get(data, "price")
     IN price.t = "number" /\ price.k = "int" /\ price.v < 0

\* C22: createProduct with a negative price, and updateProduct with a price
\* that is present and negative, return Err InvalidPrice with that price
\* before sending: no request carries a negative price.
C22_NegativePriceNeverSent ==
  \A c \in Callers :
    (svc[c].fn \in {"createProduct", "updateProduct"} /\ HasNegativePrice(svc[c].data)) =>
      /\ svc[c].request = NoRequest
      /\ svc[c].pc = "returned"
      /\ svc[c].result = err([type |-> "InvalidPrice", price |-> Get(svc[c].data, "price")])

(***************************************************************************)
(* C23, C24                                                                *)
(***************************************************************************)
ServiceFunctions ==
  {"fetchProduct", "fetchProducts", "fetchProductsByCategory", "createProduct",
   "updateProduct", "deleteProduct", "checkStock"}

\* C23: every product service function resolves to a Result for every
\* transport outcome and every caller payload: a call that has returned has
\* returned Ok or Err, never an exception.
C23_AlwaysAResult ==
  \A c \in Callers :
    (svc[c].fn \in ServiceFunctions /\ svc[c].pc = "returned") =>
      svc[c].result.tag \in {"Ok", "Err"}

\* createProduct is answered by a server error and returns Err NetworkError
C23_Witness ==
  \E c \in Callers :
    /\ svc[c].fn = "createProduct" /\ svc[c].pc = "returned"
    /\ svc[c].outcome.kind = "reject" /\ svc[c].outcome.error.status = 500
    /\ svc[c].result.tag = "Err" /\ svc[c].result.error.type = "NetworkError"

\* each function has returned for a resolved and for a rejected request
C23_WitnessAll ==
  \E c, d \in Callers :
    /\ svc[c].fn = "checkStock" /\ svc[c].pc = "returned"
    /\ svc[c].outcome.kind = "resolve" /\ svc[c].outcome.data = Null
    /\ svc[c].result.tag = "Err"
    /\ svc[d].fn = "updateProduct" /\ svc[d].pc = "returned"
    /\ svc[d].request = NoRequest /\ svc[d].result.tag = "Err"

\* C24: checkStock(id, q) returns the error of fetchProduct unchanged when
\* the fetch fails, Err OutOfStock with productId id and requested q exactly
\* when the stock_quantity of the fetched product is less than q, and Ok(true)
\* otherwise; never Ok(false).
C24_CheckStock ==
  \A c \in Callers :
    (svc[c].fn = "checkStock" /\ svc[c].pc = "returned") =>
      LET fetched == OwnResult(svc[c].id, svc[c].outcome)
          q == svc[c].arg
      IN /\ fetched.tag = "Err" => svc[c].result = fetched
         /\ fetched.tag = "Ok" =>
              IF Get(fetched.value, "stock_quantity").v < q
              THEN svc[c].result = err([type |-> "OutOfStock", productId |-> svc[c].id,
                                        requested |-> q])
              ELSE svc[c].result = ok(Bool(TRUE))
         /\ svc[c].result # ok(Bool(FALSE))

\* eleven are asked of product 42, whose stock is ten
C24_Witness ==
  \E c \in Callers :
    /\ svc[c].fn = "checkStock" /\ svc[c].pc = "returned"
    /\ svc[c].id = IntV(42) /\ svc[c].arg = 11
    /\ svc[c].outcome.kind = "resolve" /\ IsObj(svc[c].outcome.data)
    /\ Get(svc[c].outcome.data, "stock_quantity") = IntV(10)
    /\ svc[c].result = err([type |-> "OutOfStock", productId |-> IntV(42), requested |-> 11])

\* ten are asked of it
C24_WitnessInStock ==
  \E c \in Callers :
    /\ svc[c].fn = "checkStock" /\ svc[c].pc = "returned" /\ svc[c].arg = 10
    /\ svc[c].outcome.kind = "resolve"
    /\ svc[c].result = ok(Bool(TRUE))

(***************************************************************************)
(* OrderService: cancelOrder and progressOrderStatus read the order from   *)
(* the repository, decide, and ask the repository to update its status.    *)
(* Each await is a step of its own, so calls for the same order interleave *)
(* between the read and the update.  status is the status the repository   *)
(* holds; last is the latest update it has applied.                        *)
(***************************************************************************)
NoStatus == "null"

\* the order of the calls, as the repository returns it
Order(status) == [id |-> 1, status |-> status]

canCancel(order) == order.status = "pending" \/ order.status = "confirmed"

getNextStatus(current) ==
  CASE current = "pending" -> "confirmed"
    [] current = "confirmed" -> "shipped"
    [] current = "shipped" -> "delivered"
    [] current = "delivered" -> NoStatus
    [] current = "cancelled" -> NoStatus

\* a call that returns, and a call that awaits orderRepository.update
OrdReturn(result) == [pc |-> "returned", result |-> result, data |-> NoStatus]

OrdAwaitUpdate(status) == [pc |-> "updating", result |-> NoOut, data |-> status]

\* cancelOrder from the await of findById to its return or next await
cancelOrderFound(orderId, orderResult) ==
  IF orderResult.tag # "Ok"
  THEN OrdReturn(err([type |-> "NotFound", orderId |-> orderId]))
  ELSE IF ~canCancel(orderResult.value)
  THEN OrdReturn(err([type |-> "CannotCancel", status |-> orderResult.value.status]))
  ELSE OrdAwaitUpdate("cancelled")

\* cancelOrder from the await of update
cancelOrderUpdated(updateResult) ==
  IF updateResult.tag # "Ok"
  THEN err([type |-> "CreateFailed", reason |-> "Failed to cancel order"])
  ELSE ok(updateResult.value)

\* progressOrderStatus from the await of findById to its return or next await
progressOrderStatusFound(orderId, orderResult) ==
  IF orderResult.tag # "Ok"
  THEN OrdReturn(err([type |-> "NotFound", orderId |-> orderId]))
  ELSE IF getNextStatus(orderResult.value.status) = NoStatus
  THEN OrdReturn(err([type |-> "CannotCancel", status |-> orderResult.value.status]))
  ELSE OrdAwaitUpdate(getNextStatus(orderResult.value.status))

\* progressOrderStatus from the await of update
progressOrderStatusUpdated(updateResult) ==
  IF updateResult.tag # "Ok"
  THEN err([type |-> "CreateFailed", reason |-> "Failed to update status"])
  ELSE ok(updateResult.value)

OrderFunctions == {"cancelOrder", "progressOrderStatus"}

NoUpdate == [fn |-> "", from |-> NoStatus, to |-> NoStatus]

OrdIdleCall ==
  [fn |-> "", pc |-> "idle", read |-> NoStatus, data |-> NoStatus, result |-> NoOut]

\* the failure of a repository method
RepositoryErr == err([type |-> "NetworkError", message |-> Text("Network Error")])

OrdInit ==
  /\ \E status \in OrderStatusTags :
       ord = [pc |-> "run", orderId |-> Order(status).id, status |-> status,
              last |-> NoUpdate,
              calls |-> [c \in Callers |-> OrdIdleCall]]
  /\ nom = NomIdle /\ br = BrIdle /\ svc = SvcIdle
  /\ dec = DecIdle /\ res = ResIdle /\ boot = BootIdle /\ ui = UiIdle /\ cart = CartIdle

\* a caller calls fn for the order: the call runs to the await of findById
OrdCall(c) ==
  /\ ord.pc = "run" /\ ord.calls[c].pc \in {"idle", "returned"}
  /\ \E fn \in OrderFunctions :
       ord' = [ord EXCEPT !.calls[c] = [OrdIdleCall EXCEPT !.fn = fn, !.pc = "finding"]]
  /\ UNCHANGED <<nom, br, svc, dec, res, boot, ui, cart>>

\* findById settles with the order as the repository holds it now, or fails
OrdFindById(c) ==
  /\ ord.pc = "run" /\ ord.calls[c].pc = "finding"
  /\ \E orderResult \in {ok(Order(ord.status)), RepositoryErr} :
       LET next == IF ord.calls[c].fn = "cancelOrder"
                   THEN cancelOrderFound(ord.orderId, orderResult)
                   ELSE progressOrderStatusFound(ord.orderId, orderResult)
       IN ord' = [ord EXCEPT !.calls[c] =
                    [@ EXCEPT !.pc = next.pc, !.result = next.result, !.data = next.data,
                              !.read = IF orderResult.tag = "Ok" THEN orderResult.value.status
                                       ELSE NoStatus]]
  /\ UNCHANGED <<nom, br, svc, dec, res, boot, ui, cart>>

\* update settles: the repository has stored the status, or has failed
OrdUpdate(c) ==
  /\ ord.pc = "run" /\ ord.calls[c].pc = "updating"
  /\ \/ ord' = [ord EXCEPT
                  !.status = ord.calls[c].data,
                  !.last = [fn |-> ord.calls[c].fn, from |-> ord.status,
                            to |-> ord.calls[c].data],
                  !.calls[c] =
                    [@ EXCEPT !.pc = "returned",
                              !.result = IF ord.calls[c].fn = "cancelOrder"
                                         THEN cancelOrderUpdated(ok(Order(ord.calls[c].data)))
                                         ELSE progressOrderStatusUpdated(ok(Order(ord.calls[c].data)))]]
     \/ ord' = [ord EXCEPT
                  !.calls[c] =
                    [@ EXCEPT !.pc = "returned",
                              !.result = IF ord.calls[c].fn = "cancelOrder"
                                         THEN cancelOrderUpdated(RepositoryErr)
                                         ELSE progressOrderStatusUpdated(RepositoryErr)]]
  /\ UNCHANGED <<nom, br, svc, dec, res, boot, ui, cart>>

OrdNext == \E c \in Callers : OrdCall(c) \/ OrdFindById(c) \/ OrdUpdate(c)

SpecOrder == OrdInit /\ [][OrdNext]_vars

(***************************************************************************)
(* C25, C26                                                                *)
(***************************************************************************)
\* C25: progressOrderStatus advances an order exactly one step along pending,
\* confirmed, shipped, delivered; for a delivered or cancelled order it
\* returns Err and issues no update, so the two are terminal and the status
\* never moves backwards or skips a step.
C25_ProgressOneStep ==
  ord.pc = "run" =>
    /\ ord.last.fn = "progressOrderStatus" =>
         /\ ord.last.from \notin {"delivered", "cancelled"}
         /\ ord.last.to = getNextStatus(ord.last.from)
    /\ \A c \in Callers :
         (ord.calls[c].fn = "progressOrderStatus"
            /\ ord.calls[c].read \in {"delivered", "cancelled"}) =>
           /\ ord.calls[c].pc = "returned"
           /\ ord.calls[c].result.tag = "Err"

\* the same for calls that do not overlap: only one caller has made calls
C25_OneStepWithoutOverlap ==
  (ord.pc = "run" /\ \E c \in Callers : ord.calls[c].pc = "idle") =>
    /\ ord.last.fn = "progressOrderStatus" =>
         /\ ord.last.from \in {"pending", "confirmed", "shipped"}
         /\ ord.last.to = getNextStatus(ord.last.from)
    /\ ord.last.fn = "cancelOrder" => ord.last.from \in {"pending", "confirmed"}

\* C26: cancelOrder updates an order to cancelled only when its status is
\* pending or confirmed; a shipped, delivered or cancelled order is never
\* updated to cancelled, also when calls of cancelOrder and
\* progressOrderStatus for the order interleave between read and update.
C26_CancelOnlyWhenCancellable ==
  ord.pc = "run" =>
    (ord.last.fn = "cancelOrder" => ord.last.from \in {"pending", "confirmed"})

(***************************************************************************)
(* C27                                                                     *)
(***************************************************************************)
\* the constructor of nominal type n accepts the value x
ConstructorAccepts(n, x) == x.t = "number" /\ ~IsThrown(Construct(n, x))

\* C27: for every nominal codec and every input of any type, decode does not
\* raise, and it succeeds exactly when the type's guard is true of the input
\* and exactly when the constructor accepts the input.
C27_DecodeAgreesWithGuard ==
  nom.pc = "decoded" =>
    /\ nom.value.tag # "Throw"
    /\ isRight(nom.value) <=> ConstructorAccepts(nom.type, nom.p)
    /\ isRight(nom.value) <=> CallGuard(nom.type, nom.p) = "true"

\* the same for the nominal types whose guard the branded-types module exports
C27_ExportedGuardsAgree ==
  nom.pc = "decoded" /\ nom.type \in ExportedGuards =>
    /\ nom.value.tag # "Throw"
    /\ isRight(nom.value) <=> ConstructorAccepts(nom.type, nom.p)
    /\ isRight(nom.value) <=> CallGuard(nom.type, nom.p) = "true"

\* decode never raises, and agrees with the constructor, for all seven codecs
C27_DecodeNeverRaises ==
  nom.pc = "decoded" =>
    /\ nom.value.tag # "Throw"
    /\ isRight(nom.value) <=> ConstructorAccepts(nom.type, nom.p)

(***************************************************************************)
(* C28                                                                     *)
(***************************************************************************)
\* a call of fn that has returned after its request settled
ReturnedFrom(c, fn) ==
  svc[c].pc = "returned" /\ svc[c].fn = fn /\ svc[c].outcome # NoOutcome

\* C28: fetchProductAsync(id) and fetchProduct(id) are equivalent: whenever a
\* call of each with the same identifier has met the same transport outcome
\* (a valid payload, a payload failing ProductSchema, a 404 fault, another
\* fault), the two calls have returned the same Result.
C28_AsyncEquivalent ==
  \A c, d \in Callers :
    /\ ReturnedFrom(c, "fetchProduct") /\ ReturnedFrom(d, "fetchProductAsync")
    /\ svc[c].id = svc[d].id /\ svc[c].outcome = svc[d].outcome
    => svc[c].result = svc[d].result

\* both calls have met the same payload failing ProductSchema
C28_Witness ==
  \E c, d \in Callers :
    /\ ReturnedFrom(c, "fetchProduct") /\ ReturnedFrom(d, "fetchProductAsync")
    /\ svc[c].id = svc[d].id /\ svc[c].outcome = svc[d].outcome
    /\ svc[d].outcome.kind = "resolve"
    /\ svc[d].result.tag = "Err" /\ svc[d].result.error.type = "NetworkError"

\* both calls have met the same valid payload, the same 404, the same fault
C28_WitnessOk ==
  \E c, d \in Callers :
    /\ ReturnedFrom(c, "fetchProduct") /\ ReturnedFrom(d, "fetchProductAsync")
    /\ svc[c].id = svc[d].id /\ svc[c].outcome = svc[d].outcome
    /\ svc[d].result.tag = "Ok"

C28_WitnessNotFound ==
  \E c, d \in Callers :
    /\ ReturnedFrom(c, "fetchProduct") /\ ReturnedFrom(d, "fetchProductAsync")
    /\ svc[c].id = svc[d].id /\ svc[c].outcome = svc[d].outcome
    /\ svc[d].result.tag = "Err" /\ svc[d].result.error.type = "NotFound"

(***************************************************************************)
(* C29                                                                     *)
(***************************************************************************)
\* the component is mounted, the effect of its latest render has run and
\* every request it has issued has settled
AllResolved ==
  /\ ui.pc = "run" /\ ui.mounted /\ ~ui.pending
  /\ \A k \in 1..Len(ui.effects) : ui.effects[k].pc = "done"

\* the response of run i arrives in this step, after the cleanup of the run
StaleResponse(i) ==
  /\ ui.pc = "run" /\ i <= Len(ui.effects)
  /\ ui.effects[i].pc = "awaiting" /\ ~ui.effects[i].isMounted
  /\ ui'.effects[i].pc = "done"

\* C29: in ProductDetail the response of a run of the effect that arrives
\* after the cleanup of that run (productId changed or the component was
\* unmounted) changes neither result nor isLoading; when the requests of the
\* mounted component have all resolved, in any order, result is the Result
\* fetched for the current productId and isLoading is false; and whenever
\* isLoading is false result is not null.
C29_CleanedUpResponseIgnored ==
  /\ [][\A i \in 1..MaxEffects :
          StaleResponse(i) => ui'.result = ui.result /\ ui'.isLoading = ui.isLoading]_vars
  /\ [](AllResolved =>
          /\ ui.effects[Len(ui.effects)].id = ui.productId
          /\ ui.result = ui.effects[Len(ui.effects)].productResult
          /\ ui.result = fetchProductResume(ui.productId, ui.effects[Len(ui.effects)].outcome)
          /\ ui.isLoading = FALSE)
  /\ []((ui.pc = "run" /\ ui.isLoading = FALSE) => ui.result # Null)

\* all requests have resolved, and the one that resolved last had been
\* cleaned up before: its response was ignored
C29_Witness ==
  /\ AllResolved /\ Len(ui.effects) >= 2
  /\ ui.effects[1].stale
  /\ \A k \in 2..Len(ui.effects) : ui.effects[k].order < ui.effects[1].order
  /\ ui.effects[1].productResult # ui.effects[Len(ui.effects)].productResult
  /\ ui.result = ui.effects[Len(ui.effects)].productResult
  /\ ui.isLoading = FALSE

\* the component was unmounted before its request resolved: the state is as
\* the effect left it
C29_WitnessUnmounted ==
  /\ ui.pc = "run" /\ ~ui.mounted /\ Len(ui.effects) = 1
  /\ ui.effects[1].stale /\ ui.result = Null /\ ui.isLoading = TRUE

(***************************************************************************)
(* C30                                                                     *)
(***************************************************************************)
\* validateInDev has been called with a payload failing ProductSchema while
\* the validated configuration says development
InDevCalledInDevelopment ==
  /\ boot.pc = "run" /\ boot.envModule = "loaded"
  /\ Get(boot.env, "NODE_ENV") = StringLiteral("development")
  /\ boot.inDev # NoOut
  /\ ~isRight(decode(ProductSchema, boot.inDev.data))

\* C30: the environment mode validateInDev sees agrees with the validated
\* configuration: whenever the configuration returned by validateEnv has
\* NODE_ENV development, also when the variable is not set and the default was
\* taken, validateInDev validates strictly and raises on input failing the
\* schema.
C30_ModeAgreesWithConfig ==
  InDevCalledInDevelopment => boot.inDev.out.tag = "Throw"

\* the same when NODE_ENV is set to development in process.env
C30_AgreesWhenSet ==
  (InDevCalledInDevelopment /\ boot.processEnv.NODE_ENV = StringLiteral("development"))
    => boot.inDev.out.tag = "Throw"

C30_WitnessWhenSet ==
  /\ InDevCalledInDevelopment /\ boot.processEnv.NODE_ENV = StringLiteral("development")
  /\ boot.inDev.out.tag = "Throw"

====
